---- MODULE Spec2Model ----
(***************************************************************************)
(* Model of the fetch cache (src/lib/cache.ts), of the local Qwen quota   *)
(* counter (lib/qwen-local-quota.ts) and of the queries of the message     *)
(* store (lib/opencode-storage.ts) of opencode-quota.                      *)
(*                                                                         *)
(* Time is a discrete clock `now` (Date.now()).  One tick is one unit of   *)
(* the millisecond clock; intervals, the rolling window and the length of  *)
(* a UTC day are scaled down so that every boundary is within reach.       *)
(***************************************************************************)
EXTENDS Integers, Sequences, FiniteSets, TLC

VARIABLES
    now,              \* Date.now()
    cachedToast,      \* cache.ts: <<>> (null) or <<[message, timestamp]>>
    inFlightPromise,  \* cache.ts: 0 (null) or the id of the promise stored
    lastFetchTime,    \* cache.ts: start time of the last fetch, 0 after a reset
    fetches,          \* the executions of fetchFn started so far, by promise id; only
                      \* the running ones and the last one settled keep their details;
                      \* cleared is history: clearCache was called while it runs
    lastCall,         \* <<>> or <<[branch, value]>>: the last getOrFetch* call, with the
                      \* value it returned at once (null when it returned a promise)
    lastStored,       \* history: <<>> or <<[message, timestamp]>>, the last entry stored
    lastStart,        \* history: <<>> or <<[at, min, reset]>>, when and with which interval
                      \* fetchFn was last started and whether a null or non-cacheable
                      \* result or a clearCache has come in since
    file,             \* the state path: <<>> (no file) or <<content>>
    tmp,              \* per call of recordQwenCompletion: its temporary file, likewise
    pc,               \* per call of recordQwenCompletion: where it stands
    call,             \* per call of recordQwenCompletion: [at, next, renames, rms]
    file0,            \* history: the state path when the process started
    begun,            \* history: number of recordQwenCompletion calls begun
    begunToday,       \* history: number of them begun on the UTC day of now
    returned,         \* history: number of recordQwenCompletion calls that resolved
    threw,            \* history: number of recordQwenCompletion calls that rejected
    result,           \* <<>> or <<r>>: what the last call of readQwenLocalQuotaState,
                      \* recordQwenCompletion or computeQwenQuota made in sequence returned
    store,            \* opencode-storage.ts: the store as the file system has it:
                      \* [dbPath, exists, broken, sessions, rows]
    iter,             \* the call into the message store under way:
                      \* [op, pc, sessionID, sinceMs, untilMs, io], io being the
                      \* history of the I/O it has done
    outcome,          \* <<>> or <<o>>: how the last such call settled
    conns,            \* the number of connections to the database that are open
    hook,             \* plugin.ts: what the hooks of the plugin read and do:
                      \* [config, auth, model, toasts, calls, last]
    quotaCache,       \* plugin.ts: globalThis.__opencodeQuotaCommandCache:
                      \* [message, timestamp, inFlight] and, as history, started
                      \* (executions begun), waiters, fetchedAt (when the message was
                      \* fetched) and served (<<>> or what the last command got)
    shown             \* history of showQuotaToast: [owner, waiting, cachedFor, last]:
                      \* per promise the session its fetchFn computes for and the
                      \* sessions awaiting it, the session the cache entry was
                      \* computed for, and the toasts of the last step

cacheVars == <<cachedToast, inFlightPromise, lastFetchTime, fetches, lastCall, lastStored,
               lastStart>>

quotaVars == <<file, tmp, pc, call, file0, begun, begunToday, returned, threw>>

\* The variables outside the fetch cache and the step-by-step recordQwenCompletion
storeVars == <<store, iter, outcome, conns>>

\* The state of the plugin besides the modules it calls
pluginVars == <<hook, quotaCache, shown>>

restVars == <<result, storeVars, pluginVars>>

vars == <<now, cacheVars, quotaVars, restVars>>

------------------------------------------------------------------------------
(* Bounds of the model *)

MaxInterval == 1
MaxTicks == 2
MaxFetches == 2
MaxWaiters == 2
MaxWriters == 2
MaxRecords == 2
MaxQuotaTicks == 1
MaxCounterTicks == 2
MaxHookCalls == 2
MaxDay == 1
MaxSessions == 2

\* minIntervalMs values a caller may pass
Intervals == 0..MaxInterval

\* Date.now() is an epoch clock: it is larger than any configured interval
StartTime == MaxInterval + 1

\* string | null
Null == "null"

\* Each execution of fetchFn has a message of its own to answer with
FetchMessage(p) == "m" \o ToString(p)

\* The messages updateCache is called with
UpdateMessages == {"u"}

\* What fetchFn of promise p may settle with: { message, cache? } or an exception
FetchOutputs(p) ==
    [kind : {"ok"}, message : {Null, FetchMessage(p)}, cache : {"true", "false", "absent"}]
        \cup {[kind |-> "throw", message |-> Null, cache |-> "absent"]}

\* getOrFetch wraps fetchFn: the wrapper always answers { message, cache: true }
WrappedOutputs(p) ==
    [kind : {"ok"}, message : {Null, FetchMessage(p)}, cache : {"true"}]
        \cup {[kind |-> "throw", message |-> Null, cache |-> "absent"]}

\* The output field of an execution that has not settled yet
NoOutput == [kind |-> "none", message |-> Null, cache |-> TRUE]

\* quotaCache = { message: "", timestamp: 0 } (plugin.ts:854-857), nothing begun
NoQuotaCache ==
    [message |-> "", timestamp |-> 0, inFlight |-> 0, started |-> 0, waiters |-> 0,
     fetchedAt |-> 0, served |-> <<>>]

\* showQuotaToast has not been called
NoToast == [owner |-> <<>>, waiting |-> <<>>, cachedFor |-> 0, last |-> {}]

\* The record of a promise that settled before the last one did
Forgotten ==
    [wrapped |-> FALSE, status |-> "settled", out |-> NoOutput, waiters |-> 0, delivered |-> Null,
     cleared |-> FALSE]

------------------------------------------------------------------------------
(* cache.ts *)

\* Mutant: the entry still counts as fresh at age == minIntervalMs
getCachedToast_AgeInclusive(minIntervalMs) ==
    IF cachedToast = <<>>
    THEN Null
    ELSE LET age == now - cachedToast[1].timestamp
         IN  IF age <= minIntervalMs THEN cachedToast[1].message ELSE Null

\* getCachedToast(minIntervalMs)
getCachedToast(minIntervalMs) ==
    IF cachedToast = <<>>
    THEN Null
    ELSE LET age == now - cachedToast[1].timestamp
         IN  IF age < minIntervalMs THEN cachedToast[1].message ELSE Null

\* Mutant: the interval has to be exceeded
shouldFetch_Strict(minIntervalMs) == now - lastFetchTime > minIntervalMs

\* shouldFetch(minIntervalMs)
shouldFetch(minIntervalMs) == now - lastFetchTime >= minIntervalMs

\* Mutant: a stale entry is not handed out
BestKnown_Null == Null

\* cachedToast?.message ?? null
BestKnown == IF cachedToast = <<>> THEN Null ELSE cachedToast[1].message

\* out.cache ?? true
CacheFlag(out) == IF out.cache = "absent" THEN TRUE ELSE out.cache = "true"

\* Mutant: the in-flight promise is not looked at
Branch_NoDedup(minIntervalMs) ==
    IF getCachedToast(minIntervalMs) # Null THEN "cached"
    ELSE IF ~shouldFetch(minIntervalMs) THEN "throttled"
    ELSE "start"

\* Mutant: the promise in flight is looked at before the cache entry
Branch_JoinFirst(minIntervalMs) ==
    IF inFlightPromise # 0 THEN "join"
    ELSE IF getCachedToast(minIntervalMs) # Null THEN "cached"
    ELSE IF ~shouldFetch(minIntervalMs) THEN "throttled"
    ELSE "start"

\* Which return of getOrFetchWithCacheControl a call reaches
Branch(minIntervalMs) ==
    IF getCachedToast(minIntervalMs) # Null THEN "cached"
    ELSE IF inFlightPromise # 0 THEN "join"
    ELSE IF ~shouldFetch(minIntervalMs) THEN "throttled"
    ELSE "start"

\* getOrFetchWithCacheControl(fetchFn, minIntervalMs); wrapped: called through
\* getOrFetch. What the call does to the module and to the rest; who called is
\* the caller's to note
GetOrFetchStep(minIntervalMs, wrapped) ==
    /\ LET branch == Branch(minIntervalMs) IN
       CASE branch = "cached" ->
              /\ lastCall' = <<[branch |-> branch,
                                value |-> getCachedToast(minIntervalMs)]>>
              /\ UNCHANGED <<inFlightPromise, lastFetchTime, fetches, lastStart>>
         [] branch = "join" ->
              /\ fetches[inFlightPromise].waiters < MaxWaiters
              /\ fetches' = [fetches EXCEPT ![inFlightPromise].waiters = @ + 1]
              /\ lastCall' = <<[branch |-> branch, value |-> Null]>>
              /\ UNCHANGED <<inFlightPromise, lastFetchTime, lastStart>>
         [] branch = "throttled" ->
              /\ lastCall' = <<[branch |-> branch, value |-> BestKnown]>>
              /\ UNCHANGED <<inFlightPromise, lastFetchTime, fetches, lastStart>>
         [] OTHER ->
              /\ Len(fetches) < MaxFetches
              /\ lastFetchTime' = now
              /\ fetches' = Append(fetches,
                     [wrapped |-> wrapped, status |-> "running", out |-> NoOutput,
                      waiters |-> 1, delivered |-> Null, cleared |-> FALSE])
              /\ lastStart' = <<[at |-> now, min |-> minIntervalMs, reset |-> FALSE]>>
              /\ inFlightPromise' = Len(fetches) + 1
              /\ lastCall' = <<[branch |-> branch, value |-> Null]>>
    /\ UNCHANGED <<now, cachedToast, lastStored>>
    /\ UNCHANGED <<quotaVars, result, storeVars, hook, quotaCache>>

\* The call from a caller of which no note is kept
GetOrFetchCall(minIntervalMs, wrapped) ==
    /\ GetOrFetchStep(minIntervalMs, wrapped)
    /\ UNCHANGED shown

getOrFetchWithCacheControl == \E m \in Intervals : GetOrFetchCall(m, FALSE)

getOrFetch == \E m \in Intervals : GetOrFetchCall(m, TRUE)

\* The value the async body (lines 102-131) returns for a fetchFn output
BodyReturn(out) ==
    IF out.message = Null THEN Null
    ELSE IF ~CacheFlag(out) THEN out.message
    ELSE out.message

\* Mutant: a failed fetchFn resets the throttle clock too
BodyLastFetchTime_ResetOnThrow(out) ==
    IF out.kind = "throw" THEN 0
    ELSE IF out.message = Null THEN 0
    ELSE IF ~CacheFlag(out) THEN 0
    ELSE lastFetchTime

\* Mutant: a non-cacheable result leaves the throttle clock running
BodyLastFetchTime_ThrottleUncached(out) ==
    IF out.kind = "throw" THEN lastFetchTime
    ELSE IF out.message = Null THEN 0
    ELSE lastFetchTime

\* Mutant: a null result leaves the throttle clock running
BodyLastFetchTime_ThrottleNull(out) ==
    IF out.kind = "throw" THEN lastFetchTime
    ELSE IF out.message = Null THEN lastFetchTime
    ELSE IF ~CacheFlag(out) THEN 0
    ELSE lastFetchTime

\* lastFetchTime after the body has handled what fetchFn settled with
BodyLastFetchTime(out) ==
    IF out.kind = "throw" THEN lastFetchTime
    ELSE IF out.message = Null THEN 0
    ELSE IF ~CacheFlag(out) THEN 0
    ELSE lastFetchTime

\* Mutant: a null result clears the entry, a non-cacheable one renews its timestamp
BodyCachedToast_TouchesOlderEntry(out) ==
    IF out.kind = "throw" THEN cachedToast
    ELSE IF out.message = Null THEN <<>>
    ELSE IF ~CacheFlag(out)
    THEN (IF cachedToast = <<>> THEN cachedToast
          ELSE <<[cachedToast[1] EXCEPT !.timestamp = now]>>)
    ELSE <<[message |-> out.message, timestamp |-> now]>>

\* cachedToast after the body has handled what fetchFn settled with
BodyCachedToast(out) ==
    IF out.kind = "throw" THEN cachedToast
    ELSE IF out.message = Null THEN cachedToast
    ELSE IF ~CacheFlag(out) THEN cachedToast
    ELSE <<[message |-> out.message, timestamp |-> now]>>

\* Mutant: the marker is cleared on the success path only
BodyFinally_SuccessOnly(out) == IF out.kind = "throw" THEN inFlightPromise ELSE 0

\* finally { inFlightPromise = null }, whatever fetchFn settled with
BodyFinally(out) == 0

\* fetchFn of promise p settles with out, the async body runs to its end and the
\* promise settles for every call that returned it
FetchResolves(p, out) ==
    /\ fetches[p].status = "running"
    /\ fetches' = [q \in DOMAIN fetches |->
            IF q = p
            THEN [wrapped |-> FALSE,
                  status |-> IF out.kind = "throw" THEN "rejected" ELSE "resolved",
                  out |-> [kind |-> out.kind, message |-> out.message, cache |-> CacheFlag(out)],
                  waiters |-> fetches[p].waiters,
                  delivered |-> IF out.kind = "throw" THEN Null ELSE BodyReturn(out),
                  cleared |-> FALSE]
            ELSE IF fetches[q].status = "running" THEN fetches[q] ELSE Forgotten]
    /\ lastFetchTime' = BodyLastFetchTime(out)
    /\ cachedToast' = BodyCachedToast(out)
    /\ lastStored' = IF out.kind = "ok" /\ out.message # Null /\ out.cache # "false"
                     THEN <<[message |-> out.message, timestamp |-> now]>>
                     ELSE lastStored
    /\ lastStart' = IF out.kind = "ok" /\ (out.message = Null \/ out.cache = "false")
                    THEN <<[lastStart[1] EXCEPT !.reset = TRUE]>>
                    ELSE lastStart
    /\ inFlightPromise' = BodyFinally(out)
    /\ UNCHANGED <<now, lastCall>>
    /\ UNCHANGED <<quotaVars, result, storeVars, hook, quotaCache>>

\* The same for callers of which no note is kept
FetchSettles(p, out) ==
    /\ FetchResolves(p, out)
    /\ UNCHANGED shown

FetchSettle ==
    \E p \in DOMAIN fetches :
        \E out \in (IF fetches[p].wrapped THEN WrappedOutputs(p) ELSE FetchOutputs(p)) :
            FetchSettles(p, out)

\* clearCache()
clearCache ==
    /\ cachedToast' = <<>>
    /\ inFlightPromise' = 0
    /\ lastFetchTime' = 0
    /\ lastStored' = <<>>
    /\ lastStart' = IF lastStart = <<>> THEN <<>> ELSE <<[lastStart[1] EXCEPT !.reset = TRUE]>>
    /\ fetches' = [q \in DOMAIN fetches |->
            IF fetches[q].status = "running" THEN [fetches[q] EXCEPT !.cleared = TRUE]
            ELSE fetches[q]]
    /\ UNCHANGED <<now, lastCall>>
    /\ UNCHANGED <<quotaVars, restVars>>

\* updateCache(message)
updateCache ==
    \E message \in UpdateMessages :
        /\ cachedToast' = <<[message |-> message, timestamp |-> now]>>
        /\ lastStored' = <<[message |-> message, timestamp |-> now]>>
        /\ UNCHANGED <<now, inFlightPromise, lastFetchTime, fetches, lastCall, lastStart>>
        /\ UNCHANGED <<quotaVars, restVars>>

\* A call of the exported getCachedToast(minIntervalMs) from outside the module
GetCachedToastCall(minIntervalMs) ==
    /\ lastCall' = <<[branch |-> "getCachedToast", value |-> getCachedToast(minIntervalMs)]>>
    /\ UNCHANGED <<now, cachedToast, inFlightPromise, lastFetchTime, fetches, lastStored,
                   lastStart>>
    /\ UNCHANGED <<quotaVars, restVars>>

\* A call of the exported shouldFetch(minIntervalMs) from outside the module
ShouldFetchCall(minIntervalMs) ==
    /\ lastCall' = <<[branch |-> "shouldFetch", value |-> ToString(shouldFetch(minIntervalMs))]>>
    /\ UNCHANGED <<now, cachedToast, inFlightPromise, lastFetchTime, fetches, lastStored,
                   lastStart>>
    /\ UNCHANGED <<quotaVars, restVars>>

\* The clock advances
Tick ==
    /\ now < StartTime + MaxTicks
    /\ now' = now + 1
    /\ UNCHANGED cacheVars
    /\ UNCHANGED <<quotaVars, restVars>>

\* The cache module as loaded (lines 12-19)
CacheLoaded ==
    /\ cachedToast = <<>>
    /\ inFlightPromise = 0
    /\ lastFetchTime = 0
    /\ fetches = <<>>
    /\ lastCall = <<>>
    /\ lastStored = <<>>
    /\ lastStart = <<>>

\* No state file and no call of recordQwenCompletion
QuotaUntouched ==
    /\ file = <<>>
    /\ tmp = <<>>
    /\ pc = <<>>
    /\ call = <<>>
    /\ file0 = <<>>
    /\ begun = 0
    /\ begunToday = 0
    /\ returned = 0
    /\ threw = 0

\* Nothing has been called in sequence
RestUntouched ==
    /\ result = <<>>
    /\ store = <<>>
    /\ iter = <<>>
    /\ outcome = <<>>
    /\ conns = 0
    /\ hook = <<>>
    /\ quotaCache = NoQuotaCache
    /\ shown = NoToast

CacheInit ==
    /\ now = StartTime
    /\ CacheLoaded
    /\ QuotaUntouched
    /\ RestUntouched

\* Callers only: no administrative reset or seed
FetchNext ==
    \/ getOrFetchWithCacheControl
    \/ getOrFetch
    \/ FetchSettle
    \/ Tick

SpecFetch == CacheInit /\ [][FetchNext]_vars

\* The same, every started fetchFn settling in the end
SpecFetchLive == CacheInit /\ [][FetchNext]_vars /\ WF_vars(FetchSettle)

CacheNext ==
    \/ getOrFetchWithCacheControl
    \/ getOrFetch
    \/ FetchSettle
    \/ clearCache
    \/ updateCache
    \/ Tick

SpecCache == CacheInit /\ [][CacheNext]_vars

\* The calls that move the throttle clock (a fetch starting, a fetch settling,
\* clearCache), the clock, and the two exported reads
ReadsNext ==
    \/ getOrFetchWithCacheControl
    \/ FetchSettle
    \/ clearCache
    \/ Tick
    \/ \E m \in Intervals : GetCachedToastCall(m)
    \/ \E m \in Intervals : ShouldFetchCall(m)

SpecReads == CacheInit /\ [][ReadsNext]_vars

------------------------------------------------------------------------------
(* qwen-local-quota.ts: constants, in the scaled units of the clock *)

QWEN_LOCAL_QUOTA_STATE_VERSION == 1
QWEN_DAILY_LIMIT == 1000
QWEN_RPM_LIMIT == 60
RPM_WINDOW_MS == 2
MAX_RECENT_TIMESTAMPS == 2

\* Milliseconds of a UTC day (toISOString().slice(0, 10) changes every DAY_MS)
DAY_MS == 3

\* The concurrent calls of recordQwenCompletion: callbacks of one process or
\* processes, which differ in nothing but the name of their temporary file
Writers == 1..MaxWriters

\* The process starts in the last millisecond of day 1
QuotaStartTime == 2 * DAY_MS - 1

\* Error codes a file operation may fail with
ErrorCodes == {"EPERM", "EEXIST", "EACCES", "ENOTEMPTY", "EIO"}

\* Error codes of mkdir and writeFile: the code never looks at them, one stands
\* for all
WriteErrorCodes == {"EIO"}

------------------------------------------------------------------------------
(* qwen-local-quota.ts: pure functions *)

\* utcDayKey(tsMs): the UTC date, as the number of the day
utcDayKey(tsMs) == tsMs \div DAY_MS

\* defaultState(nowMs)
defaultState(nowMs) ==
    [kind |-> "state", version |-> QWEN_LOCAL_QUOTA_STATE_VERSION, utcDay |-> utcDayKey(nowMs),
     dayCount |-> 0, recent |-> <<>>, updatedAt |-> nowMs]

\* Mutant: slice(0, n), the first n elements
SliceLast_First(seq, n) ==
    IF Len(seq) <= n THEN seq ELSE SubSeq(seq, 1, n)

\* Array.prototype.slice(-n): the last n elements
SliceLast(seq, n) ==
    IF Len(seq) <= n THEN seq ELSE SubSeq(seq, Len(seq) - n + 1, Len(seq))

\* keeps the positive entries of recent (line 64)
IsPositive(x) == x > 0

\* Mutant: dayCount is taken over unchecked
normalizeState_Unchecked(raw, nowMs) ==
    IF raw.kind # "state"
    THEN defaultState(nowMs)
    ELSE [kind |-> "state",
          version |-> QWEN_LOCAL_QUOTA_STATE_VERSION,
          utcDay |-> IF raw.utcDay >= 0 THEN raw.utcDay ELSE utcDayKey(nowMs),
          dayCount |-> raw.dayCount,
          recent |-> SelectSeq(raw.recent, IsPositive),
          updatedAt |-> IF raw.updatedAt > 0 THEN raw.updatedAt ELSE nowMs]

\* normalizeState(raw, nowMs); an utcDay < 0 stands for one that is no 10-character string
normalizeState(raw, nowMs) ==
    IF raw.kind # "state"
    THEN defaultState(nowMs)
    ELSE [kind |-> "state",
          version |-> QWEN_LOCAL_QUOTA_STATE_VERSION,
          utcDay |-> IF raw.utcDay >= 0 THEN raw.utcDay ELSE utcDayKey(nowMs),
          dayCount |-> IF raw.dayCount >= 0 THEN raw.dayCount ELSE 0,
          recent |-> SelectSeq(raw.recent, IsPositive),
          updatedAt |-> IF raw.updatedAt > 0 THEN raw.updatedAt ELSE nowMs]

\* Mutant: the rolling window ends at the stored updatedAt
applyUtcResetAndPrune_UpToUpdatedAt(state, nowMs) ==
    LET today == utcDayKey(nowMs)
        recentFloor == nowMs - RPM_WINDOW_MS
        InWindow(ts) == ts >= recentFloor /\ ts <= state.updatedAt
        recent == SliceLast(SelectSeq(state.recent, InWindow), MAX_RECENT_TIMESTAMPS)
    IN  IF state.utcDay # today
        THEN [kind |-> "state", version |-> QWEN_LOCAL_QUOTA_STATE_VERSION, utcDay |-> today,
              dayCount |-> 0, recent |-> recent, updatedAt |-> nowMs]
        ELSE [kind |-> "state", version |-> QWEN_LOCAL_QUOTA_STATE_VERSION, utcDay |-> today,
              dayCount |-> state.dayCount, recent |-> recent, updatedAt |-> nowMs]

\* Mutant: the rolling window is counted back from the stored updatedAt
applyUtcResetAndPrune_FromUpdatedAt(state, nowMs) ==
    LET today == utcDayKey(nowMs)
        recentFloor == state.updatedAt - RPM_WINDOW_MS
        InWindow(ts) == ts >= recentFloor /\ ts <= nowMs
        recent == SliceLast(SelectSeq(state.recent, InWindow), MAX_RECENT_TIMESTAMPS)
    IN  IF state.utcDay # today
        THEN [kind |-> "state", version |-> QWEN_LOCAL_QUOTA_STATE_VERSION, utcDay |-> today,
              dayCount |-> 0, recent |-> recent, updatedAt |-> nowMs]
        ELSE [kind |-> "state", version |-> QWEN_LOCAL_QUOTA_STATE_VERSION, utcDay |-> today,
              dayCount |-> state.dayCount, recent |-> recent, updatedAt |-> nowMs]

\* Mutant: the day is adopted, the count is carried over
applyUtcResetAndPrune_NoReset(state, nowMs) ==
    LET today == utcDayKey(nowMs)
        recentFloor == nowMs - RPM_WINDOW_MS
        InWindow(ts) == ts >= recentFloor /\ ts <= nowMs
        recent == SliceLast(SelectSeq(state.recent, InWindow), MAX_RECENT_TIMESTAMPS)
    IN  [kind |-> "state", version |-> QWEN_LOCAL_QUOTA_STATE_VERSION, utcDay |-> today,
         dayCount |-> state.dayCount, recent |-> recent, updatedAt |-> nowMs]

\* Mutant: a new UTC day starts with an empty rolling window
applyUtcResetAndPrune_ResetClearsRecent(state, nowMs) ==
    LET today == utcDayKey(nowMs)
        recentFloor == nowMs - RPM_WINDOW_MS
        InWindow(ts) == ts >= recentFloor /\ ts <= nowMs
        recent == SliceLast(SelectSeq(state.recent, InWindow), MAX_RECENT_TIMESTAMPS)
    IN  IF state.utcDay # today
        THEN [kind |-> "state", version |-> QWEN_LOCAL_QUOTA_STATE_VERSION, utcDay |-> today,
              dayCount |-> 0, recent |-> <<>>, updatedAt |-> nowMs]
        ELSE [kind |-> "state", version |-> QWEN_LOCAL_QUOTA_STATE_VERSION, utcDay |-> today,
              dayCount |-> state.dayCount, recent |-> recent, updatedAt |-> nowMs]

\* applyUtcResetAndPrune(state, nowMs)
applyUtcResetAndPrune(state, nowMs) ==
    LET today == utcDayKey(nowMs)
        recentFloor == nowMs - RPM_WINDOW_MS
        InWindow(ts) == ts >= recentFloor /\ ts <= nowMs
        recent == SliceLast(SelectSeq(state.recent, InWindow), MAX_RECENT_TIMESTAMPS)
    IN  IF state.utcDay # today
        THEN [kind |-> "state", version |-> QWEN_LOCAL_QUOTA_STATE_VERSION, utcDay |-> today,
              dayCount |-> 0, recent |-> recent, updatedAt |-> nowMs]
        ELSE [kind |-> "state", version |-> QWEN_LOCAL_QUOTA_STATE_VERSION, utcDay |-> today,
              dayCount |-> state.dayCount, recent |-> recent, updatedAt |-> nowMs]

\* readStateFromDisk(path, nowMs): a missing file and one JSON.parse rejects
\* end in the catch
readStateFromDisk(path, nowMs) ==
    IF path = <<>> THEN defaultState(nowMs)
    ELSE IF path[1].kind \in {"garbage", "partial"} THEN defaultState(nowMs)
    ELSE normalizeState(path[1], nowMs)

\* nextUtcMidnightIso(tsMs): Date.UTC(year, month, date + 1) of tsMs
nextUtcMidnightIso(tsMs) == (tsMs \div DAY_MS + 1) * DAY_MS

\* Math.round of the fraction num / den, den > 0: halves go up
MathRound(num, den) == (2 * num + den) \div (2 * den)

\* clampPercent(n) of format-utils, n = num / den: clamp(0, 100, round(n))
clampPercent(num, den) ==
    LET r == MathRound(num, den)
    IN  IF r < 0 THEN 0 ELSE IF r > 100 THEN 100 ELSE r

\* Mutant: the share used is reported
toPercentRemaining_Used(used, limit) ==
    IF limit <= 0 THEN 0 ELSE clampPercent(used * 100, limit)

\* toPercentRemaining(used, limit)
toPercentRemaining(used, limit) ==
    IF limit <= 0 THEN 0 ELSE clampPercent((limit - used) * 100, limit)

\* Math.min(...xs) of a non-empty array
MathMin(xs) == CHOOSE x \in {xs[i] : i \in DOMAIN xs} : \A i \in DOMAIN xs : x <= xs[i]

\* params.x ?? d, an absent parameter being <<>>
OrDefault(opt, d) == IF opt = <<>> THEN d ELSE opt[1]

\* Mutant: the rolling-window reset is counted from the newest timestamp
OldestRecent_Newest(recent) == recent[Len(recent)]

\* oldestRecent of a non-empty recent (line 199)
OldestRecent(recent) == MathMin(recent)

\* computeQwenQuota({state, nowMs, dayLimit, rpmLimit}); resetTimeIso of rpm is
\* <<>> when undefined
computeQwenQuota(paramsState, nowMs, dayLimitOpt, rpmLimitOpt) ==
    LET dayLimit == OrDefault(dayLimitOpt, QWEN_DAILY_LIMIT)
        rpmLimit == OrDefault(rpmLimitOpt, QWEN_RPM_LIMIT)
        state == applyUtcResetAndPrune(paramsState, nowMs)
        dayUsed == IF state.dayCount > 0 THEN state.dayCount ELSE 0
        rpmUsed == Len(state.recent)
    IN  [day |-> [used |-> dayUsed,
                  limit |-> dayLimit,
                  percentRemaining |-> toPercentRemaining(dayUsed, dayLimit),
                  resetTimeIso |-> nextUtcMidnightIso(nowMs)],
         rpm |-> [used |-> rpmUsed,
                  limit |-> rpmLimit,
                  percentRemaining |-> toPercentRemaining(rpmUsed, rpmLimit),
                  resetTimeIso |-> IF Len(state.recent) > 0
                                   THEN <<OldestRecent(state.recent) + RPM_WINDOW_MS>>
                                   ELSE <<>>]]

\* Mutant: the loaded state is incremented without reset and prune
NextState_NoReset(loaded, nowMs) ==
    [loaded EXCEPT !.dayCount = loaded.dayCount + 1,
                   !.recent = SliceLast(Append(loaded.recent, nowMs), MAX_RECENT_TIMESTAMPS),
                   !.updatedAt = nowMs]

\* Mutant: the count that was loaded is incremented, whatever its day
NextState_CountLoaded(loaded, nowMs) ==
    LET state == applyUtcResetAndPrune(loaded, nowMs)
    IN  [state EXCEPT !.dayCount = loaded.dayCount + 1,
                      !.recent = SliceLast(Append(state.recent, nowMs), MAX_RECENT_TIMESTAMPS),
                      !.updatedAt = nowMs]

\* The state recordQwenCompletion builds from what it loaded (lines 173-180)
NextState(loaded, nowMs) ==
    LET state == applyUtcResetAndPrune(loaded, nowMs)
    IN  [state EXCEPT !.dayCount = state.dayCount + 1,
                      !.recent = SliceLast(Append(state.recent, nowMs), MAX_RECENT_TIMESTAMPS),
                      !.updatedAt = nowMs]

\* Mutant: ENOTEMPTY is not retried
shouldRetryAsReplace_NoEnotempty(code) == code \in {"EPERM", "EEXIST", "EACCES"}

\* shouldRetryAsReplace (lines 144-145)
shouldRetryAsReplace(code) == code \in {"EPERM", "EEXIST", "EACCES", "ENOTEMPTY"}

------------------------------------------------------------------------------
(* qwen-local-quota.ts: recordQwenCompletion, one action per file operation *)

\* A file that writeFile has created and not yet written in full
Partial == [kind |-> "partial"]

\* A file that is no JSON document
Garbage == [kind |-> "garbage"]

\* The locals of a call that has not begun; err is the code of the last error caught
NoCall == [at |-> 0, next |-> defaultState(0), renames |-> 0, rms |-> 0, err |-> ""]

\* const nowMs = params?.atMs ?? Date.now(), then readStateFromDisk is called.
\* The calls are interchangeable: a new one takes the first free slot.
Begin(w) ==
    /\ pc[w] = "idle"
    /\ \A v \in Writers : v < w => pc[v] # "idle"
    /\ begun < MaxRecords
    /\ begun' = begun + 1
    /\ begunToday' = begunToday + 1
    /\ call' = [call EXCEPT ![w] = [NoCall EXCEPT !.at = now]]
    /\ pc' = [pc EXCEPT ![w] = "read"]
    /\ UNCHANGED <<now, cacheVars, restVars, file, tmp, file0, returned, threw>>

\* readFile answers; the state to persist is computed (lines 172-180)
Load(w) ==
    /\ pc[w] = "read"
    /\ call' = [call EXCEPT ![w].next = NextState(readStateFromDisk(file, call[w].at), call[w].at)]
    /\ pc' = [pc EXCEPT ![w] = "write"]
    /\ UNCHANGED <<now, cacheVars, restVars, file, tmp, file0, begun, begunToday, returned, threw>>

\* Mutant: the document is written in place, the state path is opened too
PathOnWriteOpen_InPlace(w) == <<Partial>>

\* The state path once writeFile has opened its target, which is tmp (line 127)
PathOnWriteOpen(w) == file

\* mkdir, then writeFile(tmp, ...) creates the file; either may fail
WriteOpen(w) ==
    /\ pc[w] = "write"
    /\ \/ /\ tmp' = [tmp EXCEPT ![w] = <<Partial>>]
          /\ file' = PathOnWriteOpen(w)
          /\ pc' = [pc EXCEPT ![w] = "writing"]
          /\ UNCHANGED call
       \/ \E code \in WriteErrorCodes :
            /\ call' = [call EXCEPT ![w].err = code]
            /\ pc' = [pc EXCEPT ![w] = "threw"]
            /\ UNCHANGED <<tmp, file>>
    /\ UNCHANGED <<now, cacheVars, restVars, file0, begun, begunToday, returned, threw>>

\* writeFile writes the whole document, or fails and leaves a part of it
WriteDone(w) ==
    /\ pc[w] = "writing"
    /\ \/ /\ tmp' = [tmp EXCEPT ![w] = <<call[w].next>>]
          /\ pc' = [pc EXCEPT ![w] = "rename"]
          /\ UNCHANGED <<call, file>>
       \/ \E code \in WriteErrorCodes :
            /\ call' = [call EXCEPT ![w].err = code]
            /\ pc' = [pc EXCEPT ![w] = "threw"]
            /\ UNCHANGED <<tmp, file>>
    /\ UNCHANGED <<now, cacheVars, restVars, file0, begun, begunToday, returned, threw>>

\* Mutant: every failed first rename is retried
AfterRenameError_AlwaysRetry(code) == "replace"

\* Where a failed first rename leads (lines 139-153)
AfterRenameError(code) == IF shouldRetryAsReplace(code) THEN "replace" ELSE "cleanup"

\* rename(tmp, path), first attempt (line 138)
Rename(w) ==
    /\ pc[w] = "rename"
    /\ \/ /\ file' = tmp[w]
          /\ tmp' = [tmp EXCEPT ![w] = <<>>]
          /\ call' = [call EXCEPT ![w].renames = @ + 1]
          /\ pc' = [pc EXCEPT ![w] = "done"]
       \/ \E code \in ErrorCodes :
            /\ call' = [call EXCEPT ![w].renames = @ + 1, ![w].err = code]
            /\ pc' = [pc EXCEPT ![w] = AfterRenameError(code)]
            /\ UNCHANGED <<file, tmp>>
    /\ UNCHANGED <<now, cacheVars, restVars, file0, begun, begunToday, returned, threw>>

\* safeRm(tmp), then throw err (lines 147-150); rm may fail, which is ignored
Cleanup(w) ==
    /\ pc[w] = "cleanup"
    /\ \/ tmp' = [tmp EXCEPT ![w] = <<>>]
       \/ UNCHANGED tmp
    /\ pc' = [pc EXCEPT ![w] = "threw"]
    /\ UNCHANGED <<now, cacheVars, restVars, file, call, file0, begun, begunToday, returned, threw>>

\* safeRm(path) (line 152); rm may fail, which is ignored.  The caught error
\* has been used for the last time at line 147.
Replace(w) ==
    /\ pc[w] = "replace"
    /\ \/ file' = <<>>
       \/ UNCHANGED file
    /\ call' = [call EXCEPT ![w].rms = @ + 1, ![w].err = ""]
    /\ pc' = [pc EXCEPT ![w] = "rename2"]
    /\ UNCHANGED <<now, cacheVars, restVars, tmp, file0, begun, begunToday, returned, threw>>

\* rename(tmp, path), the retry (line 153); its error is thrown as it is
RenameAgain(w) ==
    /\ pc[w] = "rename2"
    /\ \/ /\ file' = tmp[w]
          /\ tmp' = [tmp EXCEPT ![w] = <<>>]
          /\ call' = [call EXCEPT ![w].renames = @ + 1]
          /\ pc' = [pc EXCEPT ![w] = "done"]
       \/ \E code \in ErrorCodes :
            /\ call' = [call EXCEPT ![w].renames = @ + 1, ![w].err = code]
            /\ pc' = [pc EXCEPT ![w] = "threw"]
            /\ UNCHANGED <<file, tmp>>
    /\ UNCHANGED <<now, cacheVars, restVars, file0, begun, begunToday, returned, threw>>

\* The promise of recordQwenCompletion settles: resolved with next (line 183) or
\* rejected with err.  A temporary file a failed call left behind is never read
\* again and is dropped from the model here.
Return(w) ==
    /\ pc[w] \in {"done", "threw"}
    /\ returned' = IF pc[w] = "done" THEN returned + 1 ELSE returned
    /\ threw' = IF pc[w] = "threw" THEN threw + 1 ELSE threw
    /\ pc' = [pc EXCEPT ![w] = "idle"]
    /\ call' = [call EXCEPT ![w] = NoCall]
    /\ tmp' = [tmp EXCEPT ![w] = <<>>]
    /\ UNCHANGED <<now, cacheVars, restVars, file, file0, begun, begunToday>>

\* The clock advances
QuotaTick ==
    /\ now < QuotaStartTime + MaxQuotaTicks
    /\ now' = now + 1
    /\ begunToday' = IF utcDayKey(now + 1) = utcDayKey(now) THEN begunToday ELSE 0
    /\ UNCHANGED <<cacheVars, restVars, file, tmp, pc, call, file0, begun, returned, threw>>

\* What the state path may hold when the process starts: nothing, a file that
\* is no JSON, or what an earlier recordQwenCompletion left yesterday or today
InitialFiles ==
    { <<>>,
      <<Garbage>>,
      <<[kind |-> "state", version |-> QWEN_LOCAL_QUOTA_STATE_VERSION,
         utcDay |-> utcDayKey(DAY_MS - 1), dayCount |-> 2,
         recent |-> <<DAY_MS - 1>>, updatedAt |-> DAY_MS - 1]>>,
      <<[kind |-> "state", version |-> QWEN_LOCAL_QUOTA_STATE_VERSION,
         utcDay |-> utcDayKey(DAY_MS + 1), dayCount |-> 1,
         recent |-> <<DAY_MS + 1>>, updatedAt |-> DAY_MS + 1]>> }

QuotaInit ==
    /\ now = QuotaStartTime
    /\ CacheLoaded
    /\ RestUntouched
    /\ file \in InitialFiles
    /\ file0 = file
    /\ tmp = [w \in Writers |-> <<>>]
    /\ pc = [w \in Writers |-> "idle"]
    /\ call = [w \in Writers |-> NoCall]
    /\ begun = 0
    /\ begunToday = 0
    /\ returned = 0
    /\ threw = 0

QuotaNext ==
    \/ \E w \in Writers : Begin(w)
    \/ \E w \in Writers : Load(w)
    \/ \E w \in Writers : WriteOpen(w)
    \/ \E w \in Writers : WriteDone(w)
    \/ \E w \in Writers : Rename(w)
    \/ \E w \in Writers : Cleanup(w)
    \/ \E w \in Writers : Replace(w)
    \/ \E w \in Writers : RenameAgain(w)
    \/ \E w \in Writers : Return(w)
    \/ QuotaTick

SpecQuota == QuotaInit /\ [][QuotaNext]_vars

------------------------------------------------------------------------------
(* qwen-local-quota.ts: the exported functions called one after the other *)

\* A state file holding JSON that is no object (null, a number, a string)
Scalar == [kind |-> "scalar"]

\* The locals of the step-by-step recordQwenCompletion, which is not running
callVars == <<tmp, pc, call, file0>>

\* Sequences over S of at most n elements, in ascending order
AscendingSeqs(S, n) ==
    {q \in UNION {[1..k -> S] : k \in 0..n} :
        \A i, j \in DOMAIN q : i < j => q[i] <= q[j]}

\* JSON objects the state path may hold: any field may be invalid (an utcDay
\* that is no date string: -1, a negative dayCount, timestamps and updatedAt
\* that are not positive: 0); recent is a list in the order the counter
\* appends it, of at most MAX_RECENT_TIMESTAMPS entries, as the counter writes
\* it.  A recent that is no array reads as an empty one (line 62).
ObjectDocuments ==
    {[kind |-> "state", version |-> QWEN_LOCAL_QUOTA_STATE_VERSION, utcDay |-> d,
      dayCount |-> c, recent |-> r, updatedAt |-> u] :
        d \in {-1, 0, 1}, c \in {-1, 0, 2},
        r \in AscendingSeqs({0} \cup ((QuotaStartTime - RPM_WINDOW_MS)..QuotaStartTime),
                            MAX_RECENT_TIMESTAMPS),
        u \in {0, QuotaStartTime - 1}}

\* What the state path may hold before the first call
InitialDocuments == {<<>>, <<Garbage>>, <<Scalar>>} \cup {<<o>> : o \in ObjectDocuments}

\* dayLimit and rpmLimit a caller of computeQwenQuota may pass: none, a limit
\* that is not positive, small limits
LimitPairs == {<<<<>>, <<>>>>, <<<<0>>, <<-1>>>>, <<<<3>>, <<1>>>>, <<<<8>>, <<8>>>>}

\* Mutant: the state that was read, reset and pruned is written back
readQwenLocalQuotaState_WritesBack ==
    /\ result' = <<[op |-> "read", at |-> now,
                    state |-> applyUtcResetAndPrune(readStateFromDisk(file, now), now),
                    limits |-> <<<<>>, <<>>>>, quota |-> <<>>]>>
    /\ file' = <<applyUtcResetAndPrune(readStateFromDisk(file, now), now)>>
    /\ UNCHANGED <<now, cacheVars, callVars, begun, begunToday, returned, threw, storeVars,
                   pluginVars>>

\* readQwenLocalQuotaState(): nowMs = Date.now()
readQwenLocalQuotaState ==
    /\ result' = <<[op |-> "read", at |-> now,
                    state |-> applyUtcResetAndPrune(readStateFromDisk(file, now), now),
                    limits |-> <<<<>>, <<>>>>, quota |-> <<>>]>>
    /\ UNCHANGED <<now, cacheVars, quotaVars, storeVars, pluginVars>>

\* recordQwenCompletion() from its first to its last line, every file
\* operation succeeding at once; JSON.stringify and JSON.parse keep the
\* integers and strings of a state as they are
recordQwenCompletion ==
    /\ begun < MaxRecords
    /\ LET next == NextState(readStateFromDisk(file, now), now)
       IN  /\ file' = <<next>>
           /\ result' = <<[op |-> "record", at |-> now, state |-> next,
                           limits |-> <<<<>>, <<>>>>, quota |-> <<>>]>>
    /\ begun' = begun + 1
    /\ begunToday' = begunToday + 1
    /\ returned' = returned + 1
    /\ UNCHANGED <<now, cacheVars, callVars, threw, storeVars, pluginVars>>

\* computeQwenQuota({state, dayLimit, rpmLimit}) on the state last returned
ComputeQuota ==
    /\ result # <<>>
    /\ \E lim \in LimitPairs :
        result' = <<[op |-> "compute", at |-> now, state |-> result[1].state,
                    limits |-> lim,
                    quota |-> <<computeQwenQuota(result[1].state, now, lim[1], lim[2])>>]>>
    /\ UNCHANGED <<now, cacheVars, quotaVars, storeVars, pluginVars>>

\* qwenCodeProvider.fetch(ctx) with Qwen OAuth in the auth file (without it
\* the provider returns before it reads anything): computeQwenQuota with the
\* default limits on what readQwenLocalQuotaState returns
QwenCodeFetch ==
    /\ LET state == applyUtcResetAndPrune(readStateFromDisk(file, now), now)
       IN  result' = <<[op |-> "fetch", at |-> now, state |-> state,
                        limits |-> <<<<>>, <<>>>>,
                        quota |-> <<computeQwenQuota(state, now, <<>>, <<>>)>>]>>
    /\ UNCHANGED <<now, cacheVars, quotaVars, storeVars, pluginVars>>

\* The clock advances
CounterTick ==
    /\ now < QuotaStartTime + MaxCounterTicks
    /\ now' = now + 1
    /\ begunToday' = IF utcDayKey(now + 1) = utcDayKey(now) THEN begunToday ELSE 0
    /\ UNCHANGED <<cacheVars, restVars, file, tmp, pc, call, file0, begun, returned, threw>>

CounterInit ==
    /\ now = QuotaStartTime
    /\ CacheLoaded
    /\ RestUntouched
    /\ file \in InitialDocuments
    /\ file0 = file
    /\ tmp = [w \in Writers |-> <<>>]
    /\ pc = [w \in Writers |-> "idle"]
    /\ call = [w \in Writers |-> NoCall]
    /\ begun = 0
    /\ begunToday = 0
    /\ returned = 0
    /\ threw = 0

CounterNext ==
    \/ readQwenLocalQuotaState
    \/ recordQwenCompletion
    \/ ComputeQuota
    \/ QwenCodeFetch
    \/ CounterTick

SpecCounter == CounterInit /\ [][CounterNext]_vars

------------------------------------------------------------------------------
(* opencode-storage.ts: the queries of the message store.  Strings that the   *)
(* code looks into are sequences of characters.                              *)

\* "ses_"
SessionPrefix == <<"s", "e", "s", "_">>

\* The session id "ses_" + c
Ses(c) == SessionPrefix \o <<c>>

\* Mutant: String.prototype.includes
startsWith_Includes(str, prefix) ==
    \E i \in 1..Len(str) :
        i + Len(prefix) - 1 <= Len(str) /\ SubSeq(str, i, i + Len(prefix) - 1) = prefix

\* String.prototype.startsWith
startsWith(str, prefix) ==
    Len(str) >= Len(prefix) /\ SubSeq(str, 1, Len(prefix)) = prefix

\* Session ids a caller may pass: empty, too short, the bare prefix, two
\* well-formed ones, the prefix in the middle, the prefix in upper case
SessionIDs ==
    {<<>>, <<"s", "e", "s">>, SessionPrefix, Ses("a"), Ses("b"),
     <<"x">> \o Ses("a"), <<"S", "E", "S", "_", "a">>}

\* sinceMs and untilMs a caller may pass: none or a time
TimeBounds == {<<>>, <<1>>}

\* The path of the database file when a candidate directory is found
DbFile == "/data/opencode/opencode.db"

\* The column data of a message row.  json: "object" for the text of a JSON
\* object, "scalar" for the text of another JSON value, "none" for text that
\* is no JSON; role, providerID, modelID, tokens: the members of the object
\* by these names, <<>> without one
Data(json, role) ==
    [json |-> json, role |-> role, providerID |-> <<>>, modelID |-> <<>>, tokens |-> <<>>]

\* The same payload with the members providerID, modelID and tokens
WithUsage(data, providerID, modelID, tokens) ==
    [data EXCEPT !.providerID = <<providerID>>, !.modelID = <<modelID>>,
                 !.tokens = <<tokens>>]

\* A row of table "message"; ids stand in their text order
MessageRow(id, session, created, data) ==
    [id |-> id, session_id |-> session, time_created |-> created, data |-> data]

\* A table "message" with rows of two sessions, a tie in time_created, a role
\* in another case, a user message, a row whose data is no JSON, a row with
\* no role and a row whose data is a JSON number; the assistant messages are
\* of a model with a price, of one without, and without provider and tokens
SomeRows ==
    {MessageRow(1, Ses("a"), 1,
        WithUsage(Data("object", <<"assistant">>), "anthropic", "opus",
                  [input |-> 1, output |-> 2])),
     MessageRow(2, Ses("a"), 0,
        WithUsage(Data("object", <<"Assistant">>), "cursor", "gpt",
                  [input |-> 4, reasoning |-> 1])),
     MessageRow(3, Ses("a"), 1,
        WithUsage(Data("object", <<"user">>), "anthropic", "opus", [input |-> 8])),
     MessageRow(4, Ses("b"), 0, Data("object", <<"assistant">>)),
     MessageRow(5, Ses("a"), 2, Data("none", <<>>)),
     MessageRow(6, Ses("a"), 2, Data("object", <<>>)),
     MessageRow(7, Ses("b"), 1, Data("scalar", <<>>)),
     MessageRow(8, Ses("b"), 2,
        WithUsage(Data("object", <<"assistant">>), "anthropic", "opus",
                  [input |-> 2, output |-> 1, cache_read |-> 3]))}

\* The same table without the row that is no JSON
DecodableRows == {r \in SomeRows : r.data.json # "none"}

\* The stores a call may meet: no candidate path, a path with no file, a file
\* that cannot be opened or queried, a database with or without sessions and
\* messages, whose SQLite has the JSON functions or lacks them
Stores ==
    {[dbPath |-> "", exists |-> FALSE, broken |-> "no", jsonExtract |-> TRUE,
      sessions |-> {}, rows |-> {}],
     [dbPath |-> DbFile, exists |-> FALSE, broken |-> "no", jsonExtract |-> TRUE,
      sessions |-> {}, rows |-> {}]}
    \cup
    [dbPath : {DbFile}, exists : {TRUE}, broken : {"no", "open", "query"},
     jsonExtract : BOOLEAN,
     sessions : {{}, {Ses("a")}, {Ses("a"), Ses("b")}, {Ses("b"), <<"x">> \o Ses("a")}},
     rows : {{}, DecodableRows, SomeRows}]

\* getOpenCodeDbPath(): what pickFirstExistingPath makes of the candidates
getOpenCodeDbPath == store.dbPath

\* Mutant: the file is not looked for
openDbOrNull_PathOnly ==
    IF getOpenCodeDbPath = "" THEN <<>>
    ELSE <<getOpenCodeDbPath>>

\* openDbOrNull(): <<>> for null, <<dbPath>> for a database that can be opened
openDbOrNull ==
    IF getOpenCodeDbPath = "" THEN <<>>
    ELSE IF ~store.exists THEN <<>>
    ELSE <<getOpenCodeDbPath>>

\* The file system calls openDbOrNull makes
IoOfOpenDbOrNull ==
    IF getOpenCodeDbPath = "" THEN <<"pickFirstExistingPath">>
    ELSE <<"pickFirstExistingPath", "existsSync">>

\* new SessionNotFoundError(sessionID, checkedPath), thrown
SessionNotFoundError(sessionID, checkedPath) ==
    [kind |-> "SessionNotFoundError", sessionID |-> sessionID, checkedPath |-> checkedPath,
     rows |-> <<>>, stats |-> <<>>, index |-> {}, usage |-> <<>>]

\* Any other error, thrown
OtherError ==
    [kind |-> "Error", sessionID |-> <<>>, checkedPath |-> "", rows |-> <<>>, stats |-> <<>>,
     index |-> {}, usage |-> <<>>]

\* A list of messages, returned
Returned(rows) ==
    [kind |-> "returned", sessionID |-> <<>>, checkedPath |-> "", rows |-> rows,
     stats |-> <<>>, index |-> {}, usage |-> <<>>]

\* An OpenCodeDbStats, returned
ReturnedStats(dbPath, sessionCount, messageCount, assistantMessageCount) ==
    [kind |-> "returned", sessionID |-> <<>>, checkedPath |-> "", rows |-> <<>>,
     stats |-> <<[dbPath |-> dbPath, sessionCount |-> sessionCount,
                  messageCount |-> messageCount,
                  assistantMessageCount |-> assistantMessageCount]>>,
     index |-> {}, usage |-> <<>>]

\* A session index, returned: the ids that are its keys
ReturnedIndex(ids) ==
    [kind |-> "returned", sessionID |-> <<>>, checkedPath |-> "", rows |-> <<>>,
     stats |-> <<>>, index |-> ids, usage |-> <<>>]

\* An AggregateResult, returned
ReturnedUsage(agg) ==
    [kind |-> "returned", sessionID |-> <<>>, checkedPath |-> "", rows |-> <<>>,
     stats |-> <<>>, index |-> {}, usage |-> <<agg>>]

\* Mutant: no database, no messages, as in iterAssistantMessages
WhenNoDb_EmptyList(sessionID) == Returned(<<>>)

\* if (!db) throw new SessionNotFoundError(sessionID, getOpenCodeDbPath())
WhenNoDb(sessionID) == SessionNotFoundError(sessionID, getOpenCodeDbPath)

\* No call under way
IdleIter ==
    [op |-> "none", pc |-> "idle", sessionID |-> <<>>, sinceMs |-> <<>>, untilMs |-> <<>>,
     io |-> <<>>]

\* A call of op as it begins
Started(op, sessionID, sinceMs, untilMs) ==
    [op |-> op, pc |-> "idle", sessionID |-> sessionID, sinceMs |-> sinceMs,
     untilMs |-> untilMs, io |-> <<>>]

\* Mutant: conn.close() after the last statement of the try block
Finally_ReturnOnly(o, opened) == IF o.kind = "returned" THEN opened - 1 ELSE opened

\* finally { conn.close() }: the connections open after a call that had
\* opened of them open settles with o
Finally(o, opened) == opened - 1

\* Mutant: ORDER BY id ASC
RowBefore_IdOnly(r, q) == r.id < q.id

\* ORDER BY time_created ASC, id ASC
RowBefore(r, q) ==
    r.time_created < q.time_created \/ (r.time_created = q.time_created /\ r.id < q.id)

RECURSIVE OrderBy(_)
OrderBy(rows) ==
    IF rows = {} THEN <<>>
    ELSE LET first == CHOOSE r \in rows : \A q \in rows : q = r \/ RowBefore(r, q)
         IN  <<first>> \o OrderBy(rows \ {first})

\* conn.all of buildMessageQuery({sessionID, sinceMs, untilMs}); sessionID <<>>
\* when the caller gives none
MessageQuery(sessionID, sinceMs, untilMs) ==
    OrderBy({r \in store.rows :
                /\ sessionID = <<>> \/ r.session_id = sessionID
                /\ sinceMs = <<>> \/ r.time_created >= sinceMs[1]
                /\ untilMs = <<>> \/ r.time_created <= untilMs[1]})

\* safeJsonParse(raw): <<>> for null, that is for text JSON.parse throws on
safeJsonParse(raw) == IF raw.json = "none" THEN <<>> ELSE <<raw>>

\* mapRowToOpenCodeMessage(row): <<>> for null
mapRowToOpenCodeMessage(row) ==
    LET payload == safeJsonParse(row.data)
    IN  IF payload = <<>> \/ payload[1].json # "object" THEN <<>>
        ELSE <<[id |-> row.id, sessionID |-> row.session_id,
                role |-> OrDefault(payload[1].role, "unknown"),
                providerID |-> payload[1].providerID,
                modelID |-> payload[1].modelID,
                tokens |-> payload[1].tokens,
                created |-> row.time_created]>>

\* String.prototype.toLowerCase on the roles of the model
toLowerCase(str) == IF str = "Assistant" THEN "assistant" ELSE str

\* The loop over the rows: the decoded messages of role assistant
RECURSIVE AssistantMessages(_)
AssistantMessages(rows) ==
    IF rows = <<>> THEN <<>>
    ELSE LET msg == mapRowToOpenCodeMessage(Head(rows))
         IN  (IF msg # <<>> /\ toLowerCase(msg[1].role) = "assistant" THEN msg ELSE <<>>)
                \o AssistantMessages(Tail(rows))

\* iterAssistantMessagesForSession({sessionID, sinceMs, untilMs}) up to its
\* first await: validateSessionIdOrThrow, openDbOrNull, db.open() is called
IterForSessionCall(sessionID, sinceMs, untilMs) ==
    /\ iter.pc = "idle"
    /\ LET started == Started("forSession", sessionID, sinceMs, untilMs)
       IN  IF ~startsWith(sessionID, SessionPrefix)
           THEN /\ iter' = started
                /\ outcome' = <<SessionNotFoundError(sessionID, "(invalid session ID format)")>>
           ELSE IF openDbOrNull = <<>>
           THEN /\ iter' = [started EXCEPT
                                !.io = IoOfOpenDbOrNull \o <<"pickFirstExistingPath">>]
                /\ outcome' = <<WhenNoDb(sessionID)>>
           ELSE /\ iter' = [started EXCEPT !.pc = "open", !.io = IoOfOpenDbOrNull]
                /\ outcome' = <<>>
    /\ UNCHANGED <<now, cacheVars, quotaVars, result, pluginVars, store, conns>>

iterAssistantMessagesForSession ==
    \E sessionID \in SessionIDs : \E sinceMs, untilMs \in TimeBounds :
        IterForSessionCall(sessionID, sinceMs, untilMs)

\* The call settles once db.open() has: with o and the I/O io when the
\* database opens, the connection being closed in the finally; with the error
\* of db.open() when it does not
OpenSettles(o, io) ==
    /\ IF store.broken = "open"
       THEN /\ iter' = [iter EXCEPT !.pc = "idle", !.io = @ \o <<"open">>]
            /\ outcome' = <<OtherError>>
            /\ conns' = conns
       ELSE /\ iter' = [iter EXCEPT !.pc = "idle", !.io = @ \o <<"open">> \o io \o <<"close">>]
            /\ outcome' = <<o>>
            /\ conns' = Finally(o, conns + 1)
    /\ UNCHANGED <<now, cacheVars, quotaVars, result, pluginVars, store>>

\* The try block of iterAssistantMessagesForSession: the session row is looked
\* up, the messages are queried and filtered
ForSessionBody(sessionID, sinceMs, untilMs) ==
    IF store.broken = "query" THEN OtherError
    ELSE IF sessionID \notin store.sessions
    THEN SessionNotFoundError(sessionID, openDbOrNull[1])
    ELSE Returned(AssistantMessages(MessageQuery(sessionID, sinceMs, untilMs)))

\* The I/O of that try block
ForSessionIo(sessionID) ==
    IF store.broken = "query" \/ sessionID \notin store.sessions THEN <<"get">>
    ELSE <<"get", "all">>

\* db.open() settles and the call runs to its end without another await, the
\* connection being closed in the finally
IterOpenSettles ==
    /\ iter.pc = "open"
    /\ iter.op = "forSession"
    /\ OpenSettles(ForSessionBody(iter.sessionID, iter.sinceMs, iter.untilMs),
                   ForSessionIo(iter.sessionID))

\* if (!db) return [] of iterAssistantMessages
IterWhenNoDb == Returned(<<>>)

\* iterAssistantMessages({sinceMs, untilMs}) up to its first await
IterCall(sinceMs, untilMs) ==
    /\ iter.pc = "idle"
    /\ LET started == Started("iter", <<>>, sinceMs, untilMs)
       IN  IF openDbOrNull = <<>>
           THEN /\ iter' = [started EXCEPT !.io = IoOfOpenDbOrNull]
                /\ outcome' = <<IterWhenNoDb>>
           ELSE /\ iter' = [started EXCEPT !.pc = "open", !.io = IoOfOpenDbOrNull]
                /\ outcome' = <<>>
    /\ UNCHANGED <<now, cacheVars, quotaVars, result, pluginVars, store, conns>>

iterAssistantMessages == \E sinceMs, untilMs \in TimeBounds : IterCall(sinceMs, untilMs)

\* The try block of iterAssistantMessages
IterBody(sinceMs, untilMs) ==
    IF store.broken = "query" THEN OtherError
    ELSE Returned(AssistantMessages(MessageQuery(<<>>, sinceMs, untilMs)))

\* db.open() of iterAssistantMessages settles and the call runs to its end
IterAllOpenSettles ==
    /\ iter.pc = "open"
    /\ iter.op = "iter"
    /\ OpenSettles(IterBody(iter.sinceMs, iter.untilMs), <<"all">>)

\* hasJsonExtract(conn): the canary query answers 'assistant'; an SQLite
\* without the function throws, which is caught
hasJsonExtract == store.jsonExtract

\* SQLite's json_extract(data, '$.role'): an error for text that is no JSON,
\* NULL (<<>>) where there is no such member
json_extract(data) ==
    IF data.json = "none" THEN [error |-> TRUE, value |-> <<>>]
    ELSE IF data.json = "object" THEN [error |-> FALSE, value |-> data.role]
    ELSE [error |-> FALSE, value |-> <<>>]

\* SELECT count(*) ... WHERE json_extract(data, '$.role') = 'assistant':
\* <<>> when the statement fails, else <<c>>
CountByJsonExtract ==
    IF \E r \in store.rows : json_extract(r.data).error THEN <<>>
    ELSE <<Cardinality({r \in store.rows : json_extract(r.data).value = <<"assistant">>})>>

\* The scan of every row: payload && payload.role === "assistant"
CountByScan ==
    Cardinality({r \in store.rows :
                    LET payload == safeJsonParse(r.data)
                    IN  payload # <<>> /\ payload[1].role = <<"assistant">>})

\* The try block of getOpenCodeDbStats
StatsBody ==
    IF store.broken = "query" THEN OtherError
    ELSE IF hasJsonExtract
    THEN IF CountByJsonExtract = <<>> THEN OtherError
         ELSE ReturnedStats(openDbOrNull[1], Cardinality(store.sessions),
                            Cardinality(store.rows), CountByJsonExtract[1])
    ELSE ReturnedStats(openDbOrNull[1], Cardinality(store.sessions),
                       Cardinality(store.rows), CountByScan)

\* The I/O of the try block of getOpenCodeDbStats
StatsIo ==
    IF store.broken = "query" THEN <<"get">>
    ELSE IF hasJsonExtract THEN <<"get", "get", "get", "get">>
    ELSE <<"get", "get", "get", "all">>

\* getOpenCodeDbStats() up to its first await
getOpenCodeDbStats ==
    /\ iter.pc = "idle"
    /\ LET started == Started("stats", <<>>, <<>>, <<>>)
       IN  IF openDbOrNull = <<>>
           THEN /\ iter' = [started EXCEPT
                                !.io = IoOfOpenDbOrNull \o <<"pickFirstExistingPath">>]
                /\ outcome' = <<ReturnedStats(getOpenCodeDbPath, 0, 0, 0)>>
           ELSE /\ iter' = [started EXCEPT !.pc = "open", !.io = IoOfOpenDbOrNull]
                /\ outcome' = <<>>
    /\ UNCHANGED <<now, cacheVars, quotaVars, result, pluginVars, store, conns>>

\* db.open() of getOpenCodeDbStats settles and the call runs to its end
StatsOpenSettles ==
    /\ iter.pc = "open"
    /\ iter.op = "stats"
    /\ OpenSettles(StatsBody, StatsIo)

\* The loop of readAllSessionsIndex keeps the rows whose id starts with "ses_"
SessionsIndex == {id \in store.sessions : startsWith(id, SessionPrefix)}

\* readAllSessionsIndex() up to its first await
readAllSessionsIndex ==
    /\ iter.pc = "idle"
    /\ LET started == Started("index", <<>>, <<>>, <<>>)
       IN  IF openDbOrNull = <<>>
           THEN /\ iter' = [started EXCEPT !.io = IoOfOpenDbOrNull]
                /\ outcome' = <<ReturnedIndex({})>>
           ELSE /\ iter' = [started EXCEPT !.pc = "open", !.io = IoOfOpenDbOrNull]
                /\ outcome' = <<>>
    /\ UNCHANGED <<now, cacheVars, quotaVars, result, pluginVars, store, conns>>

\* db.open() of readAllSessionsIndex settles and the call runs to its end
IndexOpenSettles ==
    /\ iter.pc = "open"
    /\ iter.op = "index"
    /\ IF store.broken = "query"
       THEN OpenSettles(OtherError, <<"all">>)
       ELSE OpenSettles(ReturnedIndex(SessionsIndex), <<"all">>)

------------------------------------------------------------------------------
(* The usage aggregator (aggregateUsage of lib/quota-stats) over the messages *)
(* of the store, and the pricing lookup it consults                          *)

\* The snapshot of prices: provider -> model -> price of a token per bucket
PricingSnapshot == [anthropic |-> [opus |-> [input |-> 1, output |-> 2]]]

\* lookupCost(providerId, modelId): <<>> for null
lookupCost(providerId, modelId) ==
    IF providerId \notin DOMAIN PricingSnapshot THEN <<>>
    ELSE IF modelId \notin DOMAIN PricingSnapshot[providerId] THEN <<>>
    ELSE <<PricingSnapshot[providerId][modelId]>>

\* The token buckets of a total
Buckets == {"input", "output", "reasoning", "cache_read", "cache_write"}

ZeroTokens == [b \in Buckets |-> 0]

\* The tokens of a message, a missing number counting as zero
TokensOf(msg) ==
    [b \in Buckets |->
        IF msg.tokens = <<>> THEN 0
        ELSE IF b \in DOMAIN msg.tokens[1] THEN msg.tokens[1][b] ELSE 0]

AddTokens(t, u) == [b \in Buckets |-> t[b] + u[b]]

\* The price the message is classified with: <<>> for unknown
RateOf(msg) ==
    IF msg.providerID = <<>> \/ msg.modelID = <<>> THEN <<>>
    ELSE lookupCost(msg.providerID[1], msg.modelID[1])

\* The cost of tokens at a rate; a bucket without price costs nothing
CostOf(tokens, rate) ==
    LET Price(b) == IF b \in DOMAIN rate THEN rate[b] * tokens[b] ELSE 0
    IN  Price("input") + Price("output") + Price("reasoning") + Price("cache_read")
            + Price("cache_write")

\* A breakdown without entries
NoEntries == [k \in {} |-> 0]

\* The breakdown with tokens and cost of one more message added under key
AddEntry(breakdown, key, tokens, costUsd) ==
    IF key \in DOMAIN breakdown
    THEN [breakdown EXCEPT ![key] = [tokens |-> AddTokens(@.tokens, tokens),
                                     costUsd |-> @.costUsd + costUsd,
                                     messageCount |-> @.messageCount + 1]]
    ELSE [k \in DOMAIN breakdown \cup {key} |->
            IF k = key THEN [tokens |-> tokens, costUsd |-> costUsd, messageCount |-> 1]
            ELSE breakdown[k]]

\* The result before the first message
EmptyAggregate ==
    [priced |-> ZeroTokens, unknownTokens |-> ZeroTokens, costUsd |-> 0, messageCount |-> 0,
     sessions |-> {}, bySourceProvider |-> NoEntries, bySourceModel |-> NoEntries,
     byModel |-> NoEntries, bySession |-> NoEntries, unknown |-> NoEntries]

\* Mutant: a message without price goes to the unknown bucket and list only
AddMessage_UnknownNotInBreakdowns(acc, msg) ==
    LET tokens == TokensOf(msg)
        rate == RateOf(msg)
        source == <<msg.providerID, msg.modelID>>
    IN  IF rate # <<>>
        THEN LET costUsd == CostOf(tokens, rate[1])
             IN  [acc EXCEPT
                    !.priced = AddTokens(@, tokens),
                    !.costUsd = @ + costUsd,
                    !.messageCount = @ + 1,
                    !.sessions = @ \cup {msg.sessionID},
                    !.bySourceProvider = AddEntry(@, msg.providerID, tokens, costUsd),
                    !.bySourceModel = AddEntry(@, source, tokens, costUsd),
                    !.byModel = AddEntry(@, source, tokens, costUsd),
                    !.bySession = AddEntry(@, msg.sessionID, tokens, costUsd)]
        ELSE [acc EXCEPT
                    !.unknownTokens = AddTokens(@, tokens),
                    !.messageCount = @ + 1,
                    !.sessions = @ \cup {msg.sessionID},
                    !.unknown = AddEntry(@, source, tokens, 0)]

\* One message added to the result: to the priced bucket and the breakdown by
\* priced model when its price is known, to the unknown bucket and list with
\* zero cost when not, and to the breakdowns by source and session either way
AddMessage(acc, msg) ==
    LET tokens == TokensOf(msg)
        rate == RateOf(msg)
        source == <<msg.providerID, msg.modelID>>
        costUsd == IF rate # <<>> THEN CostOf(tokens, rate[1]) ELSE 0
        counted == [acc EXCEPT
                    !.costUsd = @ + costUsd,
                    !.messageCount = @ + 1,
                    !.sessions = @ \cup {msg.sessionID},
                    !.bySourceProvider = AddEntry(@, msg.providerID, tokens, costUsd),
                    !.bySourceModel = AddEntry(@, source, tokens, costUsd),
                    !.bySession = AddEntry(@, msg.sessionID, tokens, costUsd)]
    IN  IF rate # <<>>
        THEN [counted EXCEPT !.priced = AddTokens(@, tokens),
                             !.byModel = AddEntry(@, source, tokens, costUsd)]
        ELSE [counted EXCEPT !.unknownTokens = AddTokens(@, tokens),
                             !.unknown = AddEntry(@, source, tokens, 0)]

\* The messages streamed into the result
RECURSIVE Aggregated(_, _)
Aggregated(acc, messages) ==
    IF messages = <<>> THEN acc
    ELSE Aggregated(AddMessage(acc, Head(messages)), Tail(messages))

\* The AggregateResult of a list of assistant messages for a window
AggregateResult(messages, sinceMs, untilMs) ==
    LET acc == Aggregated(EmptyAggregate, messages)
    IN  [window |-> [sinceMs |-> sinceMs, untilMs |-> untilMs],
         totals |-> [priced |-> acc.priced, unknown |-> acc.unknownTokens,
                     costUsd |-> acc.costUsd, messageCount |-> acc.messageCount,
                     sessionCount |-> Cardinality(acc.sessions)],
         bySourceProvider |-> acc.bySourceProvider, bySourceModel |-> acc.bySourceModel,
         byModel |-> acc.byModel, bySession |-> acc.bySession, unknown |-> acc.unknown]

\* What aggregateUsage makes of the outcome of the store query it awaits
AggregateOf(o, sinceMs, untilMs) ==
    IF o.kind = "returned" THEN ReturnedUsage(AggregateResult(o.rows, sinceMs, untilMs))
    ELSE o

\* The session ids aggregateUsage is called with: none, or a session
FilterSessionIDs == {<<>>, Ses("a"), Ses("b")}

\* aggregateUsage({sinceMs, untilMs, sessionID}) up to the first await of the
\* store query it makes: of the one session when sessionID is given, of all
\* sessions when not
AggregateCall(sessionID, sinceMs, untilMs) ==
    /\ iter.pc = "idle"
    /\ LET started == Started("aggregate", sessionID, sinceMs, untilMs)
       IN  IF openDbOrNull = <<>>
           THEN /\ iter' = [started EXCEPT !.io = IoOfOpenDbOrNull]
                /\ outcome' = <<AggregateOf(IF sessionID = <<>> THEN IterWhenNoDb
                                            ELSE WhenNoDb(sessionID),
                                            sinceMs, untilMs)>>
           ELSE /\ iter' = [started EXCEPT !.pc = "open", !.io = IoOfOpenDbOrNull]
                /\ outcome' = <<>>
    /\ UNCHANGED <<now, cacheVars, quotaVars, result, pluginVars, store, conns>>

aggregateUsage ==
    \E sessionID \in FilterSessionIDs : \E sinceMs, untilMs \in TimeBounds :
        AggregateCall(sessionID, sinceMs, untilMs)

\* Milliseconds of a local day, in the unit of time_created
LocalDayMs == 2

\* The dates /tokens_between is given, as the number of the local day
Days == 0..MaxDay

\* startOfLocalDayMs(ymd): local midnight of the day
startOfLocalDayMs(ymd) == ymd * LocalDayMs

\* startOfNextLocalDayMs(ymd): new Date(y, m - 1, d + 1), local midnight of
\* the following day
startOfNextLocalDayMs(ymd) == (ymd + 1) * LocalDayMs

\* /tokens_between START END with arguments parseQuotaBetweenArgs accepts (the
\* end not before the start): buildQuotaReport calls aggregateUsage with
\* sinceMs, with startOfNextLocalDayMs(END) as untilMs and with no session
TokensBetween(startYmd, endYmd) ==
    /\ startYmd <= endYmd
    /\ AggregateCall(<<>>, <<startOfLocalDayMs(startYmd)>>, <<startOfNextLocalDayMs(endYmd)>>)

\* db.open() of the store query settles, the query runs to its end and
\* aggregateUsage goes through its messages
AggregateOpenSettles ==
    /\ iter.pc = "open"
    /\ iter.op = "aggregate"
    /\ IF iter.sessionID = <<>>
       THEN OpenSettles(AggregateOf(IterBody(iter.sinceMs, iter.untilMs),
                                    iter.sinceMs, iter.untilMs),
                        <<"all">>)
       ELSE OpenSettles(AggregateOf(ForSessionBody(iter.sessionID, iter.sinceMs, iter.untilMs),
                                    iter.sinceMs, iter.untilMs),
                        ForSessionIo(iter.sessionID))

StoreInit ==
    /\ now = StartTime
    /\ CacheLoaded
    /\ QuotaUntouched
    /\ result = <<>>
    /\ store \in Stores
    /\ iter = IdleIter
    /\ outcome = <<>>
    /\ conns = 0
    /\ hook = <<>>
    /\ quotaCache = NoQuotaCache
    /\ shown = NoToast

StoreNext ==
    \/ iterAssistantMessagesForSession
    \/ IterOpenSettles
    \/ iterAssistantMessages
    \/ IterAllOpenSettles
    \/ getOpenCodeDbStats
    \/ StatsOpenSettles
    \/ readAllSessionsIndex
    \/ IndexOpenSettles
    \/ aggregateUsage
    \/ \E startYmd, endYmd \in Days : TokensBetween(startYmd, endYmd)
    \/ AggregateOpenSettles

SpecStore == StoreInit /\ [][StoreNext]_vars

------------------------------------------------------------------------------
(* plugin.ts: the tool.execute.after hook *)

\* The fields of QuotaToastConfig the hook and what it calls read
Configs == [enabled : BOOLEAN, showOnQuestion : BOOLEAN]

\* "qwen-code/"
QwenCodePrefix == <<"q", "w", "e", "n", "-", "c", "o", "d", "e", "/">>

\* The model of the session, as client.session.get reports it: a model of
\* qwen-code, one of qwen-code written with capitals, one of another provider
SessionModels ==
    {QwenCodePrefix \o <<"m">>,
     <<"Q", "w", "e", "n", "-", "C", "o", "d", "e", "/", "m">>,
     <<"o", "p", "e", "n", "a", "i", "/", "m">>}

\* String.prototype.toLowerCase on the characters of the model ids
LowerCased(str) ==
    [i \in 1..Len(str) |-> IF str[i] = "Q" THEN "q" ELSE IF str[i] = "C" THEN "c" ELSE str[i]]

\* The tools the host runs and the status their output carries
Tools == {"question", "bash"}
Statuses == {"success", "error"}

\* hasQwenOAuthAuth: the auth file has an oauth entry for Qwen with an access token
hasQwenOAuthAuth == hook.auth

\* qwenCodeProvider.matchesCurrentModel
matchesCurrentModel(model) == startsWith(LowerCased(model), QwenCodePrefix)

\* The hook: a question tool with showOnQuestion set asks for a toast
\* (showQuotaToast); the hook takes the input alone, not the output of the
\* tool, and neither it nor showQuotaToast calls recordQwenCompletion, so
\* the calls of recordQwenCompletion begun stay as they are
ToolExecuteAfter(tool, status) ==
    /\ hook.calls < MaxHookCalls
    /\ hook' = [hook EXCEPT !.calls = @ + 1,
                            !.last = <<[tool |-> tool, status |-> status]>>,
                            !.toasts = IF tool = "question" /\ hook.config.showOnQuestion
                                       THEN @ + 1 ELSE @]
    /\ UNCHANGED <<now, cacheVars, quotaVars, result, storeVars, quotaCache, shown>>

HookInit ==
    /\ now = StartTime
    /\ CacheLoaded
    /\ QuotaUntouched
    /\ result = <<>>
    /\ store = <<>>
    /\ iter = <<>>
    /\ outcome = <<>>
    /\ conns = 0
    /\ hook \in [config : Configs, auth : BOOLEAN, model : SessionModels,
                  toasts : {0}, calls : {0}, last : {<<>>}]
    /\ quotaCache = NoQuotaCache
    /\ shown = NoToast

HookNext == \E tool \in Tools, status \in Statuses : ToolExecuteAfter(tool, status)

SpecHook == HookInit /\ [][HookNext]_vars

------------------------------------------------------------------------------
(* plugin.ts: the /quota command and its cache *)

\* config.minIntervalMs as the command may find it: up to twice the time the
\* clock needs for a tick
CommandIntervals == 0..(MaxInterval + 1)

\* Each execution of fetchQuotaCommandMessage has a message of its own
QuotaMessage(p) == "q" \o ToString(p)

\* const cached = quotaCache.timestamp && now - quotaCache.timestamp <
\* config.minIntervalMs ? quotaCache.message : null (lines 859-863)
QuotaCached(minIntervalMs) ==
    IF quotaCache.timestamp # 0 /\ now - quotaCache.timestamp < minIntervalMs
    THEN quotaCache.message
    ELSE Null

\* A string or null in a condition: null and "" are falsy
Truthy(msg) == msg # Null /\ msg # ""

\* if (msg) { quotaCache.message = msg; quotaCache.timestamp = Date.now() }
\* (lines 876-879), msg being the cached message or the fetched one
Stamped(cache, msg) ==
    IF Truthy(msg) THEN [cache EXCEPT !.message = msg, !.timestamp = now] ELSE cache

\* command.execute.before with cmd === "quota" (lines 849-879), up to its
\* first await: a hit is served and stamped at once; otherwise the command
\* awaits the execution in flight or starts one
QuotaCommand(minIntervalMs) ==
    /\ LET cached == QuotaCached(minIntervalMs) IN
       IF Truthy(cached)
       THEN quotaCache' =
                [Stamped(quotaCache, cached) EXCEPT
                    !.served = <<[message |-> cached, hit |-> TRUE, at |-> now,
                                  min |-> minIntervalMs,
                                  fetchedAt |-> quotaCache.fetchedAt]>>]
       ELSE IF quotaCache.inFlight # 0
       THEN /\ quotaCache.waiters < MaxWaiters
            /\ quotaCache' = [quotaCache EXCEPT !.waiters = @ + 1]
       ELSE /\ quotaCache.started < MaxFetches
            /\ quotaCache' = [quotaCache EXCEPT !.inFlight = quotaCache.started + 1,
                                                !.started = @ + 1,
                                                !.waiters = 1]
    /\ UNCHANGED <<now, cacheVars, quotaVars, result, storeVars, hook, shown>>

\* fetchQuotaCommandMessage settles: the finally unsets inFlight (871-873) and
\* every command awaiting the promise goes on with msg (876-879); a thrown
\* error leaves the entry as it is
QuotaCommandSettles(kind, msg) ==
    /\ quotaCache.inFlight # 0
    /\ quotaCache' =
        IF kind = "throw"
        THEN [quotaCache EXCEPT !.inFlight = 0, !.waiters = 0]
        ELSE [Stamped(quotaCache, msg) EXCEPT
                 !.inFlight = 0,
                 !.waiters = 0,
                 !.fetchedAt = IF Truthy(msg) THEN now ELSE @,
                 !.served = <<[message |-> msg, hit |-> FALSE, at |-> now,
                               min |-> 0, fetchedAt |-> now]>>]
    /\ UNCHANGED <<now, cacheVars, quotaVars, result, storeVars, hook, shown>>

QuotaCommandSettle ==
    \/ QuotaCommandSettles("ok", QuotaMessage(quotaCache.inFlight))
    \/ QuotaCommandSettles("ok", Null)
    \/ QuotaCommandSettles("throw", Null)

CommandNext ==
    \/ \E m \in CommandIntervals : QuotaCommand(m)
    \/ QuotaCommandSettle
    \/ Tick

SpecCommand == CacheInit /\ [][CommandNext]_vars

------------------------------------------------------------------------------
(* plugin.ts: showQuotaToast *)

\* The sessions of the host that are no subagent sessions (for a subagent
\* session showQuotaToast returns before it fetches anything)
Sessions == 1..MaxSessions

\* What the fetchFn showQuotaToast passes may settle with: { message: msg,
\* cache: msg ? shouldCacheToastMessage(msg) : true } or an exception
ToastOutputs(p) ==
    {[kind |-> "ok", message |-> Null, cache |-> "true"],
     [kind |-> "ok", message |-> FetchMessage(p), cache |-> "true"],
     [kind |-> "ok", message |-> FetchMessage(p), cache |-> "false"],
     [kind |-> "throw", message |-> Null, cache |-> "absent"]}

\* showQuotaToast(sessionID, trigger) with toasts enabled, up to its await of
\* the message. With config.debug it calls fetchQuotaMessage(trigger,
\* sessionID) itself (available: that call has a message); otherwise it calls
\* getOrFetchWithCacheControl with a fetchFn that calls
\* fetchQuotaMessage(trigger, sessionID), and shows what the call returns at
\* once, if it is a message
ShowQuotaToast(sessionID, debug, available, minIntervalMs) ==
    IF debug
    THEN /\ shown' = [shown EXCEPT !.last = IF available
                                            THEN {[to |-> sessionID, of |-> sessionID]}
                                            ELSE {}]
         /\ UNCHANGED <<now, cacheVars, quotaVars, result, storeVars, hook, quotaCache>>
    ELSE /\ GetOrFetchStep(minIntervalMs, FALSE)
         /\ LET branch == Branch(minIntervalMs) IN
            shown' =
              CASE branch = "cached" ->
                     [shown EXCEPT !.last = {[to |-> sessionID, of |-> shown.cachedFor]}]
                [] branch = "join" ->
                     [shown EXCEPT !.waiting[inFlightPromise] = @ \cup {sessionID},
                                   !.last = {}]
                [] branch = "throttled" ->
                     [shown EXCEPT !.last = IF BestKnown = Null THEN {}
                                            ELSE {[to |-> sessionID,
                                                   of |-> shown.cachedFor]}]
                [] OTHER ->
                     [shown EXCEPT !.owner = Append(@, sessionID),
                                   !.waiting = Append(@, {sessionID}),
                                   !.last = {}]

\* The fetchFn of promise p settles: every showQuotaToast awaiting the promise
\* shows the message it resolves with, if it is one
ToastFetchSettles(p, out) ==
    /\ FetchResolves(p, out)
    /\ shown' = [shown EXCEPT
            !.cachedFor = IF out.kind = "ok" /\ out.message # Null /\ CacheFlag(out)
                          THEN shown.owner[p] ELSE @,
            !.waiting[p] = {},
            !.last = IF out.kind = "throw" \/ BodyReturn(out) = Null THEN {}
                     ELSE {[to |-> w, of |-> shown.owner[p]] : w \in shown.waiting[p]}]

ToastFetchSettle ==
    \E p \in DOMAIN fetches : \E out \in ToastOutputs(p) : ToastFetchSettles(p, out)

ToastNext ==
    \/ \E sessionID \in Sessions, debug, available \in BOOLEAN, m \in Intervals :
            ShowQuotaToast(sessionID, debug, available, m)
    \/ ToastFetchSettle
    \/ Tick

SpecToast == CacheInit /\ [][ToastNext]_vars

------------------------------------------------------------------------------
(* Properties of the fetch cache *)

\* Promise p settles in this step
SettlesNow(p) ==
    /\ p \in DOMAIN fetches
    /\ fetches[p].status = "running"
    /\ fetches'[p].status \in {"resolved", "rejected"}

\* A call with interval m would start fetchFn in this state, were it made
WouldStart(m) == getCachedToast(m) = Null => Branch(m) = "start"

\* C1: a call that arrives while a fetch is in flight and the cache is not fresh
\* starts no execution of fetchFn and returns the promise in flight; when that
\* one execution settles, all N calls that returned its promise settle with it,
\* and a resolved promise gives them the message fetchFn answered.
C1_Deduplicates ==
    [][/\ \A m \in Intervals, w \in BOOLEAN :
            (GetOrFetchCall(m, w) /\ inFlightPromise # 0 /\ getCachedToast(m) = Null)
                => /\ Len(fetches') = Len(fetches)
                   /\ inFlightPromise' = inFlightPromise
                   /\ fetches'[inFlightPromise].waiters = fetches[inFlightPromise].waiters + 1
                   /\ fetches'[inFlightPromise].status = "running"
       /\ \A p \in DOMAIN fetches :
            SettlesNow(p)
                => /\ fetches'[p].waiters = fetches[p].waiters
                   /\ fetches'[p].status = "resolved"
                        => fetches'[p].delivered = fetches'[p].out.message
      ]_vars

\* C1 witness: one execution has resolved with a message for two calls
C1_Witness ==
    \E p \in DOMAIN fetches :
        /\ fetches[p].status = "resolved"
        /\ fetches[p].waiters >= 2
        /\ fetches[p].delivered = FetchMessage(p)
        /\ Len(fetches) = 1

\* C2 as claimed: whatever fetchFn returns, two starts of fetchFn made with the
\* same minIntervalMs are at least minIntervalMs apart.
C2_OncePerWindow ==
    [][\A m \in Intervals, w \in BOOLEAN :
            (GetOrFetchCall(m, w) /\ Len(fetches') > Len(fetches)
                /\ lastStart # <<>> /\ lastStart[1].min = m)
                => now - lastStart[1].at >= m
      ]_vars

\* C2 amended: two starts of fetchFn made with the same minIntervalMs are at
\* least minIntervalMs apart, unless the earlier execution resolved with a null
\* message or with cache == false (which resets the throttle clock).
C2_OncePerWindowUnlessReset ==
    [][\A m \in Intervals, w \in BOOLEAN :
            (GetOrFetchCall(m, w) /\ Len(fetches') > Len(fetches)
                /\ lastStart # <<>> /\ lastStart[1].min = m /\ ~lastStart[1].reset)
                => now - lastStart[1].at >= m
      ]_vars

\* C2 witness: after an execution that threw, the next one has been started with
\* a positive interval
C2_Witness ==
    /\ Len(fetches) = 2
    /\ fetches[1].status = "rejected"
    /\ fetches[2].status = "running"
    /\ lastStart[1].min > 0
    /\ lastStart[1].at = lastFetchTime

\* C6: getCachedToast(m) is the message of the last entry stored exactly when
\* that entry is younger than m, and null at age >= m or without an entry.
C6_CachedToastFreshness ==
    \A m \in 0..(MaxTicks + 1) :
        getCachedToast(m) =
            IF lastStored # <<>> /\ now - lastStored[1].timestamp < m
            THEN lastStored[1].message
            ELSE Null

\* C6 witness: an entry of age 1 is stale for m = 1 and fresh for m = 2
C6_Witness ==
    /\ lastStored # <<>>
    /\ now - lastStored[1].timestamp = 1
    /\ getCachedToast(1) = Null
    /\ getCachedToast(2) = lastStored[1].message

\* C7: when fetchFn resolves with a message and cache == false, the calls get
\* the message, the cache entry is left as it was and the throttle clock is 0;
\* until the next start, a call that finds no fresh cache entry starts fetchFn.
C7_UncachedNotThrottled ==
    [][/\ \A p \in DOMAIN fetches :
            (SettlesNow(p) /\ fetches'[p].out.kind = "ok"
                /\ fetches'[p].out.message # Null /\ ~fetches'[p].out.cache)
                => /\ fetches'[p].delivered = fetches'[p].out.message
                   /\ fetches'[p].status = "resolved"
                   /\ cachedToast' = cachedToast
                   /\ lastFetchTime' = 0
       /\ \A p \in DOMAIN fetches :
            (inFlightPromise = 0 /\ p = Len(fetches) /\ fetches[p].out.kind = "ok"
                /\ fetches[p].out.message # Null /\ ~fetches[p].out.cache)
                => \A m \in Intervals : WouldStart(m)
      ]_vars

\* C7 witness: a second execution runs right after one that resolved with
\* cache == false, both started with a positive interval at the same time
C7_Witness ==
    /\ Len(fetches) = 2
    /\ fetches[1].status = "resolved"
    /\ fetches[1].out.message # Null
    /\ ~fetches[1].out.cache
    /\ fetches[2].status = "running"
    /\ lastStart[1].min > 0
    /\ lastStart[1].at = now
    /\ cachedToast = <<>>

\* C8: when fetchFn resolves with message == null, the calls get null and the
\* throttle clock is 0; until the next start, a call that finds no fresh cache
\* entry starts fetchFn.
C8_NullNotThrottled ==
    [][/\ \A p \in DOMAIN fetches :
            (SettlesNow(p) /\ fetches'[p].out.kind = "ok" /\ fetches'[p].out.message = Null)
                => /\ fetches'[p].delivered = Null
                   /\ fetches'[p].status = "resolved"
                   /\ lastFetchTime' = 0
       /\ \A p \in DOMAIN fetches :
            (inFlightPromise = 0 /\ p = Len(fetches) /\ fetches[p].out.kind = "ok"
                /\ fetches[p].out.message = Null)
                => \A m \in Intervals : WouldStart(m)
      ]_vars

\* C8 witness: a second execution runs right after one that resolved with null
C8_Witness ==
    /\ Len(fetches) = 2
    /\ fetches[1].status = "resolved"
    /\ fetches[1].out.message = Null
    /\ fetches[2].status = "running"
    /\ lastStart[1].min > 0
    /\ lastStart[1].at = now

\* C9: when an execution settles, resolved or thrown, the in-flight marker is
\* null afterwards; an exception of fetchFn rejects the promise, and with it
\* every call that returned it.
C9_MarkerClearedErrorPropagates ==
    [][\A p \in DOMAIN fetches :
            SettlesNow(p)
                => /\ inFlightPromise' = 0
                   /\ fetches'[p].out.kind = "throw"
                        => /\ fetches'[p].status = "rejected"
                           /\ fetches'[p].waiters = fetches[p].waiters
                           /\ cachedToast' = cachedToast
      ]_vars

\* C9 witness: an execution threw for two calls and the marker is null
C9_Witness ==
    \E p \in DOMAIN fetches :
        /\ fetches[p].status = "rejected"
        /\ fetches[p].waiters >= 2
        /\ inFlightPromise = 0

------------------------------------------------------------------------------
(* Properties of the local quota counter *)

\* The calls of recordQwenCompletion so far were all made on the day the process started
SameUtcDay == now \div DAY_MS = QuotaStartTime \div DAY_MS

\* The count the state path held for that day when the process started
InitialDayCount ==
    IF file0 # <<>> /\ file0[1].kind = "state" /\ file0[1].utcDay = QuotaStartTime \div DAY_MS
    THEN file0[1].dayCount
    ELSE 0

\* Call w has its move onto the state path succeed in this step
PersistsNow(w) == pc[w] \in {"rename", "rename2"} /\ pc'[w] = "done"

\* C3 as claimed: through every step of the persistence, on the normal and on
\* the retry path, the state path never holds a partial document, never loses
\* its file once it has one, and changes only to a complete new state.
C3_PathNeverPartialNeverMissing ==
    [][/\ file' # <<>> => file'[1].kind # "partial"
       /\ file # <<>> => file' # <<>>
       /\ file' # file => \E w \in Writers : PersistsNow(w) /\ file' = <<call[w].next>>
      ]_vars

\* C3 amended: the state path never holds a partial document and changes only
\* by the move of a complete new state onto it or, on the retry path alone, by
\* the delete that precedes the retried move, which leaves no file until that
\* move succeeds.
C3_PathNeverPartial ==
    [][/\ file' # <<>> => file'[1].kind # "partial"
       /\ file' # file =>
            \/ \E w \in Writers : PersistsNow(w) /\ file' = <<call[w].next>>
            \/ \E w \in Writers : pc[w] = "replace" /\ pc'[w] = "rename2" /\ file' = <<>>
       /\ (file # <<>> /\ file' = <<>>) => \E w \in Writers : pc[w] = "replace"
      ]_vars

\* C3 witness: on the retry path the state path, which held a file, holds none
\* while the complete new state waits in the temporary file
C3_Witness ==
    \E w \in Writers :
        /\ pc[w] = "rename2"
        /\ file0 # <<>>
        /\ file = <<>>
        /\ tmp[w] = <<call[w].next>>

\* C4 as claimed: when k >= 2 calls made on one UTC day have all resolved and no
\* file operation failed, the persisted dayCount is the initial one plus k.
C4_NoIncrementLost ==
    (/\ \A w \in Writers : pc[w] = "idle"
     /\ returned >= 2
     /\ returned = begun
     /\ threw = 0
     /\ SameUtcDay)
        => /\ file # <<>>
           /\ file[1].dayCount = InitialDayCount + returned

\* C5: the state a call builds from a stored state has utcDay = UTC day of atMs,
\* and dayCount = 1 if the stored utcDay differs from it, stored dayCount + 1 if
\* not; what the call moves onto the state path is the state it returns.
C5_ResetOrIncrement ==
    [][\A w \in Writers :
        /\ (pc[w] = "read" /\ pc'[w] = "write" /\ file # <<>> /\ file[1].kind = "state")
            => /\ call'[w].next.utcDay = call[w].at \div DAY_MS
               /\ call'[w].next.dayCount =
                    IF file[1].utcDay # call[w].at \div DAY_MS THEN 1 ELSE file[1].dayCount + 1
        /\ PersistsNow(w)
            => /\ file' = <<call[w].next>>
               /\ call'[w].next = call[w].next
      ]_vars

\* C5 witness: the only call so far found yesterday's state with dayCount 2 and
\* has persisted and returned dayCount 1 for today
C5_Witness ==
    \E w \in Writers :
        /\ begun = 1
        /\ pc[w] = "done"
        /\ file0 # <<>>
        /\ file0[1].kind = "state"
        /\ file0[1].utcDay # call[w].at \div DAY_MS
        /\ file0[1].dayCount = 2
        /\ call[w].next.dayCount = 1
        /\ call[w].next.utcDay = call[w].at \div DAY_MS
        /\ file = <<call[w].next>>

\* C10: a first move that fails is followed by the delete of the destination
\* and one retry exactly when its code is EPERM, EEXIST, EACCES or ENOTEMPTY;
\* when the retry succeeds, rename has been called twice, rm once on the
\* destination, and the state path holds the state the call built.
C10_RetryOnceAsReplace ==
    [][\A w \in Writers :
        /\ (pc[w] = "rename" /\ pc'[w] \notin {"rename", "done"})
            => /\ call'[w].renames = 1
               /\ file' = file
               /\ pc'[w] = "replace"
                    <=> call'[w].err \in {"EPERM", "EEXIST", "EACCES", "ENOTEMPTY"}
        /\ pc[w] = "replace"
            => /\ pc'[w] \in {"replace", "rename2"}
               /\ pc'[w] = "rename2" => (call'[w].rms = 1 /\ file' \in {<<>>, file})
        /\ (pc[w] = "rename2" /\ pc'[w] = "done")
            => /\ call'[w].renames = 2
               /\ call'[w].rms = 1
               /\ file' = <<call[w].next>>
               /\ tmp'[w] = <<>>
        /\ call'[w].renames <= 2
      ]_vars

\* C10 witness: the only call so far found dayCount 1 for today, had its first
\* move fail, and after the retry the state path holds dayCount 2
C10_Witness ==
    \E w \in Writers :
        /\ begun = 1
        /\ pc[w] = "done"
        /\ call[w].renames = 2
        /\ call[w].rms = 1
        /\ InitialDayCount = 1
        /\ file # <<>>
        /\ file[1].dayCount = 2

\* C11: a first move failing with a code that is not retryable is followed by
\* the cleanup of the temporary file and the rejection with that code, the move
\* having been tried once; a retry that fails rejects with its own code, the
\* move having been tried twice; a rejecting call makes no further move and
\* leaves the state path alone; a call resolves only from a successful move
\* that put its state on the state path.
C11_HardErrorPropagates ==
    [][\A w \in Writers :
        /\ (pc[w] = "rename" /\ pc'[w] \notin {"rename", "done"}
                /\ call'[w].err \notin {"EPERM", "EEXIST", "EACCES", "ENOTEMPTY"})
            => /\ pc'[w] = "cleanup"
               /\ call'[w].renames = 1
        /\ pc[w] = "cleanup"
            => /\ pc'[w] \in {"cleanup", "threw"}
               /\ call'[w] = call[w]
               /\ pc'[w] = "threw" => file' = file
        /\ (pc[w] = "rename2" /\ pc'[w] \notin {"rename2", "done"})
            => /\ pc'[w] = "threw"
               /\ call'[w].renames = 2
               /\ call'[w].err \in ErrorCodes
               /\ file' = file
        /\ pc[w] = "threw"
            => /\ pc'[w] \in {"threw", "idle"}
               /\ pc'[w] = "idle"
                    => (threw' = threw + 1 /\ returned' = returned /\ file' = file)
        /\ (pc[w] # "done" /\ pc'[w] = "done") => file' = <<call[w].next>>
        /\ returned' # returned
            => \E v \in Writers : pc[v] = "done" /\ pc'[v] = "idle"
      ]_vars

\* C11 witness: one call is about to reject after a first move that failed with
\* EIO, another after a retry that failed, and the state path holds neither
\* call's state
C11_Witness ==
    \E v, w \in Writers :
        /\ pc[v] = "threw"
        /\ call[v].renames = 1
        /\ call[v].err = "EIO"
        /\ pc[w] = "threw"
        /\ call[w].renames = 2
        /\ call[w].rms = 1
        /\ call[w].err \in ErrorCodes
        /\ file # <<call[v].next>>
        /\ file # <<call[w].next>>

------------------------------------------------------------------------------
(* Properties of the counter's exported functions *)

\* The state path holds no file, or one that is no JSON object
NoObjectOnPath == file = <<>> \/ file[1].kind # "state"

\* The state path holds an object with a field that is not valid
InvalidFieldOnPath ==
    /\ file # <<>>
    /\ file[1].kind = "state"
    /\ \/ file[1].utcDay < 0
       \/ file[1].dayCount < 0
       \/ file[1].updatedAt <= 0
       \/ \E i \in DOMAIN file[1].recent : file[1].recent[i] <= 0

\* The freshly initialized state for nowMs, as read returns it
Fresh(nowMs) ==
    [kind |-> "state", version |-> 1, utcDay |-> nowMs \div DAY_MS, dayCount |-> 0,
     recent |-> <<>>, updatedAt |-> nowMs]

\* A computeQwenQuota step on a fresh state with positive limits reports 100
\* percent remaining and nothing used for both dimensions
FreshComputes100 ==
    (/\ ComputeQuota
     /\ result[1].state.dayCount = 0
     /\ result[1].state.recent = <<>>
     /\ \A i \in 1..2 : result'[1].limits[i] = <<>> \/ result'[1].limits[i][1] > 0)
        => /\ result'[1].quota[1].day.percentRemaining = 100
           /\ result'[1].quota[1].rpm.percentRemaining = 100
           /\ result'[1].quota[1].day.used = 0
           /\ result'[1].quota[1].rpm.used = 0

\* C12 as claimed: reading a missing, unreadable or malformed state file, one
\* with an invalid field included, returns the fresh state for nowMs, from
\* which computeQuota reports 100 percent for both dimensions.
C12_MalformedReadsFresh ==
    [][/\ (readQwenLocalQuotaState /\ (NoObjectOnPath \/ InvalidFieldOnPath))
            => result'[1].state = Fresh(now)
       /\ FreshComputes100
      ]_vars

\* C12 amended: reading a state path with no file or with a file that is no
\* JSON object returns the fresh state for nowMs, from which computeQuota
\* reports 100 percent for both dimensions; in an object, each invalid field
\* is replaced by its default and the valid ones are kept: an invalid utcDay
\* reads as today, so a valid dayCount survives, an invalid dayCount reads as
\* 0, and recent keeps its positive entries of the rolling window.
C12_UnreadableReadsFresh ==
    [][/\ (readQwenLocalQuotaState /\ NoObjectOnPath)
            => result'[1].state = Fresh(now)
       /\ (readQwenLocalQuotaState /\ InvalidFieldOnPath)
            => /\ result'[1].state.utcDay = now \div DAY_MS
               /\ result'[1].state.updatedAt = now
               /\ result'[1].state.dayCount =
                    IF file[1].dayCount < 0 THEN 0
                    ELSE IF file[1].utcDay < 0 \/ file[1].utcDay = now \div DAY_MS
                         THEN file[1].dayCount
                         ELSE 0
               /\ \A t \in 0..(now + 1) :
                    Cardinality({i \in DOMAIN result'[1].state.recent :
                                    result'[1].state.recent[i] = t})
                    = IF t > 0 /\ t >= now - RPM_WINDOW_MS /\ t <= now
                      THEN Cardinality({i \in DOMAIN file[1].recent : file[1].recent[i] = t})
                      ELSE 0
       /\ FreshComputes100
      ]_vars

\* C12 witness: the state path holds a file that is no JSON, the read returned
\* the fresh state and computeQwenQuota with the default limits reported 100
\* percent for the day and for the rolling window
C12_Witness ==
    /\ file = <<Garbage>>
    /\ result # <<>>
    /\ result[1].op = "compute"
    /\ result[1].state = Fresh(result[1].at)
    /\ result[1].limits = <<<<>>, <<>>>>
    /\ result[1].quota[1].day.percentRemaining = 100
    /\ result[1].quota[1].rpm.percentRemaining = 100

\* p is clamp(0, 100, round(100 * (limit - used) / limit)), halves rounded up,
\* and 0 when limit <= 0: with x = 100 * (limit - used) / limit, p is an
\* integer of 0..100, x + 1/2 < p + 1 unless p = 100, and p <= x + 1/2 unless
\* p = 0
IsPercentRemaining(p, used, limit) ==
    /\ p \in 0..100
    /\ limit <= 0 => p = 0
    /\ limit > 0 =>
        /\ p < 100 => 200 * (limit - used) + limit < 2 * (p + 1) * limit
        /\ p > 0 => 2 * p * limit <= 200 * (limit - used) + limit

\* The limit computeQwenQuota works with: the one passed or the default
LimitUsed(opt, default) == IF opt = <<>> THEN default ELSE opt[1]

\* C13: computeQuota at nowMs counts as rpm.used the timestamps of recent in
\* [nowMs - window, nowMs], at most the cap, and as day.used the dayCount if
\* the state is of the UTC day of nowMs and 0 if not; each percentRemaining is
\* clamp(0, 100, round(100 * (limit - used) / limit)), 0 for a limit <= 0, so
\* an integer of 0..100.
C13_UsedAndPercentRemaining ==
    [][(result' # result /\ ComputeQuota) =>
        LET s == result[1].state
            q == result'[1].quota[1]
            inWindow == {i \in DOMAIN s.recent :
                            s.recent[i] >= now - RPM_WINDOW_MS /\ s.recent[i] <= now}
        IN  /\ q.rpm.used = IF Cardinality(inWindow) > MAX_RECENT_TIMESTAMPS
                             THEN MAX_RECENT_TIMESTAMPS ELSE Cardinality(inWindow)
            /\ q.day.used = IF s.utcDay = now \div DAY_MS /\ s.dayCount > 0
                             THEN s.dayCount ELSE 0
            /\ q.day.limit = LimitUsed(result'[1].limits[1], 1000)
            /\ q.rpm.limit = LimitUsed(result'[1].limits[2], 60)
            /\ IsPercentRemaining(q.day.percentRemaining, q.day.used, q.day.limit)
            /\ IsPercentRemaining(q.rpm.percentRemaining, q.rpm.used, q.rpm.limit)
      ]_vars

\* C13 witness: of two stored timestamps one has left the rolling window and
\* the stored count is of the day before: computeQwenQuota with limits 8 and 8
\* reports rpm.used 1 with 88 percent (87.5 rounded up) and day.used 0 with 100
C13_Witness ==
    /\ result # <<>>
    /\ result[1].op = "compute"
    /\ result[1].limits = <<<<8>>, <<8>>>>
    /\ Len(result[1].state.recent) = 2
    /\ result[1].state.dayCount = 2
    /\ result[1].state.utcDay # result[1].at \div DAY_MS
    /\ result[1].quota[1].rpm.used = 1
    /\ result[1].quota[1].rpm.percentRemaining = 88
    /\ result[1].quota[1].day.used = 0
    /\ result[1].quota[1].day.percentRemaining = 100

\* C14: computeQuota at nowMs reports as day reset time the first UTC midnight
\* strictly after nowMs, and as rolling-window reset time the smallest
\* timestamp of recent that survives the prune plus the window, absent exactly
\* when none survives.
C14_ResetTimes ==
    [][(result' # result /\ ComputeQuota) =>
        LET s == result[1].state
            q == result'[1].quota[1]
            surviving == {s.recent[i] : i \in {j \in DOMAIN s.recent :
                            s.recent[j] >= now - RPM_WINDOW_MS /\ s.recent[j] <= now}}
        IN  /\ q.day.resetTimeIso % DAY_MS = 0
            /\ q.day.resetTimeIso > now
            /\ q.day.resetTimeIso - DAY_MS <= now
            /\ q.rpm.resetTimeIso = <<>> <=> surviving = {}
            /\ q.rpm.resetTimeIso # <<>> =>
                /\ q.rpm.resetTimeIso[1] - RPM_WINDOW_MS \in surviving
                /\ \A t \in surviving : q.rpm.resetTimeIso[1] - RPM_WINDOW_MS <= t
      ]_vars

\* C14 witness: computeQwenQuota called at a UTC midnight on a state whose two
\* timestamps both survive reports the next midnight, a whole day later, and
\* the older timestamp plus the window
C14_Witness ==
    /\ result # <<>>
    /\ result[1].op = "compute"
    /\ result[1].at = 2 * DAY_MS
    /\ result[1].state.recent = <<2 * DAY_MS - 2, 2 * DAY_MS - 1>>
    /\ result[1].quota[1].day.resetTimeIso = 3 * DAY_MS
    /\ result[1].quota[1].rpm.resetTimeIso = <<2 * DAY_MS - 2 + RPM_WINDOW_MS>>

\* The timestamps a recordQwenCompletion at nowMs has to choose from: the
\* stored ones of the rolling window, in their order, and nowMs
Candidates(nowMs) ==
    LET InWindow(ts) == ts > 0 /\ ts >= nowMs - RPM_WINDOW_MS /\ ts <= nowMs
        stored == IF file = <<>> \/ file[1].kind # "state" THEN <<>> ELSE file[1].recent
    IN  Append(SelectSeq(stored, InWindow), nowMs)

\* C15: the state a read or recordCompletion at nowMs returns, and a
\* recordCompletion persists, has every recent entry in [nowMs - window, nowMs]
\* and at most cap entries; when the stored timestamps of the window and nowMs
\* are more than cap, the ones left out are the oldest.
C15_RecentWindowedAndCapped ==
    [][/\ (result' # <<>> /\ result'[1].op \in {"read", "record"}) =>
            /\ Len(result'[1].state.recent) <= MAX_RECENT_TIMESTAMPS
            /\ \A i \in DOMAIN result'[1].state.recent :
                /\ result'[1].state.recent[i] >= result'[1].at - RPM_WINDOW_MS
                /\ result'[1].state.recent[i] <= result'[1].at
       /\ (result' # result /\ recordQwenCompletion) =>
            LET all == Candidates(now)
                kept == result'[1].state.recent
                evicted == Len(all) - Len(kept)
            IN  /\ file' = <<result'[1].state>>
                /\ Len(kept) = IF Len(all) > MAX_RECENT_TIMESTAMPS
                               THEN MAX_RECENT_TIMESTAMPS ELSE Len(all)
                /\ \A i \in DOMAIN kept : kept[i] = all[evicted + i]
                /\ \A i \in 1..evicted : \A j \in DOMAIN kept : all[i] <= kept[j]
      ]_vars

\* C15 witness: the state path held cap timestamps of the window, a
\* recordCompletion one tick later persisted the newer of them and its own
\* time, the oldest being left out
C15_Witness ==
    /\ result # <<>>
    /\ result[1].op = "record"
    /\ begun = 1
    /\ file0 # <<>>
    /\ file0[1].kind = "state"
    /\ Len(file0[1].recent) = MAX_RECENT_TIMESTAMPS
    /\ file0[1].recent = <<QuotaStartTime - 1, QuotaStartTime>>
    /\ result[1].at = QuotaStartTime + 1
    /\ result[1].state.recent = <<QuotaStartTime, QuotaStartTime + 1>>
    /\ file = <<result[1].state>>

\* The states at hand: the one readStateFromDisk finds and the one last returned
StatesAtHand ==
    {readStateFromDisk(file, now)} \cup (IF result = <<>> THEN {} ELSE {result[1].state})

\* The step brings a stored or returned state that was not at hand before
NewStateAtHand ==
    result = <<>> \/ file' # file \/ result'[1].state # result[1].state

\* The times a transform may be applied at: before, within and after the run
TransformTimes == (QuotaStartTime - RPM_WINDOW_MS)..(QuotaStartTime + MaxCounterTicks + 1)

\* C16: applyResetAndPrune applied a second time at the same time changes
\* nothing, for the stored and the returned states and every time; so
\* computeQuota, which applies it again, reports at the time of a read or
\* recordCompletion just the dayCount and the number of timestamps returned.
C16_Idempotent ==
    [][/\ NewStateAtHand =>
            \A s \in StatesAtHand' : \A t \in TransformTimes :
                applyUtcResetAndPrune(applyUtcResetAndPrune(s, t), t)
                    = applyUtcResetAndPrune(s, t)
       /\ (result' # result /\ ComputeQuota /\ result[1].op # "compute" /\ result[1].at = now) =>
            /\ result'[1].quota[1].day.used = result[1].state.dayCount
            /\ result'[1].quota[1].rpm.used = Len(result[1].state.recent)
      ]_vars

\* C16 witness: a read on a new day dropped one of two stored timestamps and
\* reset the count of 2, and computeQwenQuota at the same time, applying the
\* transform again, reports what the read returned
C16_Witness ==
    /\ result # <<>>
    /\ result[1].op = "compute"
    /\ file # <<>>
    /\ file[1].kind = "state"
    /\ file[1].dayCount = 2
    /\ file[1].utcDay >= 0
    /\ Len(file[1].recent) = 2
    /\ result[1].state = applyUtcResetAndPrune(file[1], result[1].at)
    /\ result[1].state.dayCount = 0
    /\ Len(result[1].state.recent) = 1
    /\ result[1].quota[1].day.used = 0
    /\ result[1].quota[1].rpm.used = 1

\* State s has its utcDay and its timestamps not later than t
NotLaterThan(s, t) ==
    /\ s.utcDay <= t \div DAY_MS
    /\ \A i \in DOMAIN s.recent : s.recent[i] <= t

------------------------------------------------------------------------------
(* The counter under concurrent writers *)

\* The count the state path held for UTC day d when the run started
StoredAtStart(d) ==
    IF file0 # <<>> /\ file0[1].kind = "state" /\ file0[1].utcDay = d
    THEN file0[1].dayCount
    ELSE 0

\* The number of recordQwenCompletion calls started on UTC day d
StartedOn(d) ==
    IF d = utcDayKey(now) THEN begunToday
    ELSE IF d = utcDayKey(QuotaStartTime) THEN begun - begunToday
    ELSE 0

\* C18: with concurrent recordCompletion calls in any interleaving, the
\* dayCount on the state path never exceeds the count stored for its UTC day at
\* the start plus the number of calls started on that day.
C18_NeverOverCounts ==
    (file # <<>> /\ file[1].kind = "state")
        => file[1].dayCount <= StoredAtStart(file[1].utcDay) + StartedOn(file[1].utcDay)

\* C18 witness: two calls started on the day of the stored state have both
\* resolved and the state path holds one increment, the other being lost
C18_Witness ==
    /\ \A w \in Writers : pc[w] = "idle"
    /\ begunToday = 2
    /\ returned = 2
    /\ file0 # <<>>
    /\ file0[1].kind = "state"
    /\ file0[1].utcDay = utcDayKey(now)
    /\ file # <<>>
    /\ file[1].utcDay = utcDayKey(now)
    /\ file[1].dayCount = file0[1].dayCount + 1

------------------------------------------------------------------------------
(* Properties of iterAssistantMessagesForSession *)

\* C19: a call with a session id that does not start with "ses_" fails with
\* SessionNotFoundError for that id at once, having done no I/O: no path
\* lookup, no existence check, no open, no query.
C19_MalformedIdNoIo ==
    [][\A sessionID \in SessionIDs : \A sinceMs, untilMs \in TimeBounds :
        (/\ IterForSessionCall(sessionID, sinceMs, untilMs)
         /\ \/ Len(sessionID) < 4
            \/ <<sessionID[1], sessionID[2], sessionID[3], sessionID[4]>> # <<"s", "e", "s", "_">>)
            => /\ outcome' # <<>>
               /\ outcome'[1].kind = "SessionNotFoundError"
               /\ outcome'[1].sessionID = sessionID
               /\ iter'.io = <<>>
               /\ iter'.pc = "idle"
      ]_vars

\* C19 witness: a call with "xses_a" against a database that holds session
\* ses_a has failed with SessionNotFoundError and done no I/O
C19_Witness ==
    /\ iter.sessionID = <<"x", "s", "e", "s", "_", "a">>
    /\ iter.pc = "idle"
    /\ iter.io = <<>>
    /\ store.exists
    /\ store.broken = "no"
    /\ store.sessions # {}
    /\ outcome # <<>>
    /\ outcome[1].kind = "SessionNotFoundError"
    /\ outcome[1].sessionID = iter.sessionID

\* The store is unavailable: no candidate path, or no file at the path
StoreUnavailable == store.dbPath = "" \/ ~store.exists

\* C20 as claimed: a call with a well-formed session id while the store is
\* unavailable fails with SessionNotFoundError carrying that id and
\* checkedPath "(store unavailable)".
C20_UnavailableCheckedPathLiteral ==
    [][\A sessionID \in SessionIDs : \A sinceMs, untilMs \in TimeBounds :
        (/\ IterForSessionCall(sessionID, sinceMs, untilMs)
         /\ Len(sessionID) >= 4
         /\ SubSeq(sessionID, 1, 4) = <<"s", "e", "s", "_">>
         /\ StoreUnavailable)
            => /\ outcome' # <<>>
               /\ outcome'[1].kind = "SessionNotFoundError"
               /\ outcome'[1].sessionID = sessionID
               /\ outcome'[1].checkedPath = "(store unavailable)"
      ]_vars

\* C20 amended: such a call fails with SessionNotFoundError carrying that id
\* and, as checkedPath, the database path the path lookup returns (empty when
\* there is no candidate), without opening a connection.
C20_UnavailableCheckedPathIsDbPath ==
    [][\A sessionID \in SessionIDs : \A sinceMs, untilMs \in TimeBounds :
        (/\ IterForSessionCall(sessionID, sinceMs, untilMs)
         /\ Len(sessionID) >= 4
         /\ SubSeq(sessionID, 1, 4) = <<"s", "e", "s", "_">>
         /\ StoreUnavailable)
            => /\ outcome' # <<>>
               /\ outcome'[1].kind = "SessionNotFoundError"
               /\ outcome'[1].sessionID = sessionID
               /\ outcome'[1].checkedPath = store.dbPath
               /\ iter'.pc = "idle"
               /\ \A i \in DOMAIN iter'.io : iter'.io[i] \notin {"open", "get", "all"}
      ]_vars

\* C20 witness: a call with ses_a has failed with SessionNotFoundError where
\* the path lookup named a database file that does not exist
C20_Witness ==
    /\ iter.sessionID = <<"s", "e", "s", "_", "a">>
    /\ iter.pc = "idle"
    /\ store.dbPath = "/data/opencode/opencode.db"
    /\ ~store.exists
    /\ outcome # <<>>
    /\ outcome[1].kind = "SessionNotFoundError"
    /\ outcome[1].sessionID = iter.sessionID
    /\ outcome[1].checkedPath = "/data/opencode/opencode.db"

------------------------------------------------------------------------------
(* Properties of the connections and of the bulk queries of the message store *)

\* A call has come back from db.open() with a connection and has settled
SettledAfterOpen ==
    /\ iter.pc = "idle"
    /\ outcome # <<>>
    /\ iter.io # <<>>
    /\ iter.io[Len(iter.io)] = "close"

\* C21: whenever no call into the store is under way, no connection is open:
\* every call of getOpenCodeDbStats, iterAssistantMessages,
\* iterAssistantMessagesForSession and readAllSessionsIndex has closed the
\* connection it opened, whether it returned or threw.
C21_ConnectionsClosed == iter.pc = "idle" => conns = 0

\* C21 witness: iterAssistantMessagesForSession has opened the database, found
\* no row for the session, thrown SessionNotFoundError and left no connection
C21_Witness ==
    /\ SettledAfterOpen
    /\ iter.op = "forSession"
    /\ iter.sessionID \notin store.sessions
    /\ outcome[1].kind = "SessionNotFoundError"
    /\ outcome[1].checkedPath = DbFile
    /\ conns = 0

\* The rows iterAssistantMessages is to return for the bounds of the call
\* under way: inside the bounds that are given, data a JSON object, role
\* assistant (the code compares the role in lower case)
WantedRows ==
    {r \in store.rows :
        /\ iter.sinceMs = <<>> \/ iter.sinceMs[1] <= r.time_created
        /\ iter.untilMs = <<>> \/ r.time_created <= iter.untilMs[1]
        /\ r.data.json = "object"
        /\ r.data.role \in {<<"assistant">>, <<"Assistant">>}}

\* C22: when iterAssistantMessages comes back from a database that opens and
\* answers, it returns a list, never an error, which holds each row inside the
\* given bounds that decodes and has role assistant exactly once, and no other
\* row, in the order of creation time and then id.
C22_IterExactOrdered ==
    [][(IterAllOpenSettles /\ store.broken = "no")
        => /\ outcome'[1].kind = "returned"
           /\ LET out == outcome'[1].rows
              IN  /\ {out[i].id : i \in DOMAIN out} = {r.id : r \in WantedRows}
                  /\ Len(out) = Cardinality(WantedRows)
                  /\ \A i \in DOMAIN out :
                        \E r \in WantedRows :
                            /\ r.id = out[i].id
                            /\ r.session_id = out[i].sessionID
                            /\ r.time_created = out[i].created
                  /\ \A i, j \in DOMAIN out :
                        i < j => \/ out[i].created < out[j].created
                                 \/ out[i].created = out[j].created /\ out[i].id < out[j].id
      ]_vars

\* C22 witness: a call without bounds on the table that holds a row that is
\* no JSON has returned the four assistant messages, the two created at the
\* same time in the order of their ids
C22_Witness ==
    /\ SettledAfterOpen
    /\ iter.op = "iter"
    /\ iter.sinceMs = <<>>
    /\ iter.untilMs = <<>>
    /\ \E r \in store.rows : r.data.json = "none"
    /\ outcome[1].kind = "returned"
    /\ Len(outcome[1].rows) = 4
    /\ outcome[1].rows[1].id = 2
    /\ outcome[1].rows[2].id = 4
    /\ outcome[1].rows[3].id = 1
    /\ outcome[1].rows[4].id = 8

\* The call that has just been made settled at once, opened no connection and
\* returned
ReturnedWithoutOpening ==
    /\ iter'.pc = "idle"
    /\ \A i \in DOMAIN iter'.io : iter'.io[i] \notin {"open", "get", "all"}
    /\ conns' = 0
    /\ outcome' # <<>>
    /\ outcome'[1].kind = "returned"

\* C23: while the store is unavailable (no candidate path, or no file at the
\* path), iterAssistantMessages returns the empty list, getOpenCodeDbStats
\* returns zero for its three counts and readAllSessionsIndex an empty index,
\* each without opening a connection; iterAssistantMessagesForSession with a
\* well-formed id is the one that throws.
C23_BulkQueriesNoData ==
    [][StoreUnavailable =>
        /\ iterAssistantMessages
            => ReturnedWithoutOpening /\ outcome'[1].rows = <<>>
        /\ getOpenCodeDbStats
            => /\ ReturnedWithoutOpening
               /\ outcome'[1].stats # <<>>
               /\ outcome'[1].stats[1].sessionCount = 0
               /\ outcome'[1].stats[1].messageCount = 0
               /\ outcome'[1].stats[1].assistantMessageCount = 0
        /\ readAllSessionsIndex
            => ReturnedWithoutOpening /\ outcome'[1].index = {}
        /\ IterForSessionCall(<<"s", "e", "s", "_", "a">>, <<>>, <<>>)
            => /\ outcome' # <<>>
               /\ outcome'[1].kind = "SessionNotFoundError"
      ]_vars

\* C23 witness: getOpenCodeDbStats has returned zero counts where no candidate
\* path exists, having opened nothing
C23_Witness ==
    /\ iter.op = "stats"
    /\ iter.pc = "idle"
    /\ store.dbPath = ""
    /\ \A i \in DOMAIN iter.io : iter.io[i] # "open"
    /\ outcome # <<>>
    /\ outcome[1].stats # <<>>
    /\ outcome[1].stats[1].sessionCount = 0
    /\ outcome[1].stats[1].messageCount = 0
    /\ outcome[1].stats[1].assistantMessageCount = 0

\* The message rows whose payload decodes to an object of role "assistant"
AssistantRows ==
    {r \in store.rows : r.data.json = "object" /\ r.data.role = <<"assistant">>}

\* C24: whenever getOpenCodeDbStats comes back from a database that opens and
\* answers, it returns the number of sessions, of messages and of messages
\* whose payload has role "assistant", the same whether the count is made with
\* json_extract or by the scan of every row, also when the payload of a row
\* cannot be decoded.
C24_StatsSameEitherWay ==
    [][(StatsOpenSettles /\ store.broken = "no")
        => /\ outcome'[1].kind = "returned"
           /\ outcome'[1].stats # <<>>
           /\ outcome'[1].stats[1].sessionCount = Cardinality(store.sessions)
           /\ outcome'[1].stats[1].messageCount = Cardinality(store.rows)
           /\ outcome'[1].stats[1].assistantMessageCount = Cardinality(AssistantRows)
      ]_vars

------------------------------------------------------------------------------
(* Properties of the usage aggregator *)

\* The sum of a bucket over the entries of a breakdown under keys
RECURSIVE TokensUnder(_, _, _)
TokensUnder(breakdown, keys, b) ==
    IF keys = {} THEN 0
    ELSE LET k == CHOOSE x \in keys : TRUE
         IN  breakdown[k].tokens[b] + TokensUnder(breakdown, keys \ {k}, b)

\* The sum of a bucket over a breakdown
BreakdownTokens(breakdown, b) == TokensUnder(breakdown, DOMAIN breakdown, b)

\* The sum of the message counts, and of the costs, over a breakdown
RECURSIVE CountUnder(_, _, _)
CountUnder(breakdown, keys, field) ==
    IF keys = {} THEN 0
    ELSE LET k == CHOOSE x \in keys : TRUE
         IN  breakdown[k][field] + CountUnder(breakdown, keys \ {k}, field)

BreakdownSum(breakdown, field) == CountUnder(breakdown, DOMAIN breakdown, field)

------------------------------------------------------------------------------
(* Properties of the returns of getOrFetchWithCacheControl and of the reads *)

\* The call in this step left the cache entry, the in-flight marker, the
\* throttle clock and the executions of fetchFn as they were
CacheStateUnchanged ==
    /\ cachedToast' = cachedToast
    /\ inFlightPromise' = inFlightPromise
    /\ lastFetchTime' = lastFetchTime
    /\ fetches' = fetches

\* C26: a call that finds a cache entry younger than minIntervalMs returns
\* the message of that entry at once, starts no execution of fetchFn, joins
\* none, and leaves the cache entry, the in-flight marker and the throttle
\* clock as they were, whether or not a fetch is in flight.
C26_FreshReturnsCached ==
    [][\A m \in Intervals, w \in BOOLEAN :
            (/\ cachedToast # <<>>
             /\ now - cachedToast[1].timestamp < m
             /\ GetOrFetchCall(m, w))
                => /\ lastCall'[1].branch = "cached"
                   /\ lastCall'[1].value = cachedToast[1].message
                   /\ CacheStateUnchanged
      ]_vars

\* C26 witness: a call has returned the fresh cache entry while an execution
\* of fetchFn is running with one caller waiting for it
C26_Witness ==
    /\ lastCall # <<>>
    /\ lastCall[1].branch = "cached"
    /\ cachedToast # <<>>
    /\ lastCall[1].value = cachedToast[1].message
    /\ now - cachedToast[1].timestamp < MaxInterval
    /\ inFlightPromise # 0
    /\ fetches[inFlightPromise].status = "running"
    /\ fetches[inFlightPromise].waiters = 1

\* C27: a call that finds no fresh cache entry and no fetch in flight, while
\* less than minIntervalMs has passed on the throttle clock, returns the
\* message of the stale entry, or null without an entry, and starts no
\* execution of fetchFn; nothing of the cache state changes.
C27_ThrottledReturnsBestKnown ==
    [][\A m \in Intervals, w \in BOOLEAN :
            (/\ cachedToast = <<>> \/ now - cachedToast[1].timestamp >= m
             /\ inFlightPromise = 0
             /\ now - lastFetchTime < m
             /\ GetOrFetchCall(m, w))
                => /\ lastCall'[1].branch = "throttled"
                   /\ lastCall'[1].value =
                        (IF cachedToast = <<>> THEN Null ELSE cachedToast[1].message)
                   /\ Len(fetches') = Len(fetches)
                   /\ CacheStateUnchanged
      ]_vars

\* C27 witness: a call inside the throttle window has returned the message of
\* an entry that is stale, and no fetch is in flight
C27_Witness ==
    /\ lastCall # <<>>
    /\ lastCall[1].branch = "throttled"
    /\ cachedToast # <<>>
    /\ lastCall[1].value = cachedToast[1].message
    /\ now - cachedToast[1].timestamp >= 1
    /\ now - lastFetchTime < 1
    /\ inFlightPromise = 0

\* The start time of the last fetch, or 0 when there was none or when
\* clearCache or a null or non-cacheable result has come in since
LastFetchStart == IF lastStart = <<>> \/ lastStart[1].reset THEN 0 ELSE lastStart[1].at

\* C28: shouldFetch(minIntervalMs) answers true exactly when now minus the
\* start time of the last fetch (0 after clearCache or a null or non-cacheable
\* result) is at least minIntervalMs; a call of shouldFetch or of
\* getCachedToast changes nothing of the cache state.
C28_ShouldFetchIffElapsed ==
    [][\A m \in Intervals :
        /\ ShouldFetchCall(m)
            => /\ lastCall'[1].value = ToString(now - LastFetchStart >= m)
               /\ CacheStateUnchanged
        /\ GetCachedToastCall(m) => CacheStateUnchanged
      ]_vars

\* C28 witness: shouldFetch(1) has answered false in the tick a fetch was
\* started in, which is still running
C28_Witness ==
    /\ lastCall # <<>>
    /\ lastCall[1].branch = "shouldFetch"
    /\ lastCall[1].value = "FALSE"
    /\ lastStart # <<>>
    /\ lastStart[1].at = now
    /\ ~lastStart[1].reset
    /\ inFlightPromise # 0

\* The calls of recordQwenCompletion the hook owes for a tool execution: one
\* for a question tool that succeeded while the plugin is enabled, Qwen OAuth
\* is configured and the model of the session is a qwen-code model
CompletionsOwed(tool, status) ==
    IF /\ tool = "question"
       /\ status = "success"
       /\ hook.config.enabled
       /\ hasQwenOAuthAuth
       /\ matchesCurrentModel(hook.model)
    THEN 1 ELSE 0

\* C29: the tool.execute.after hook calls recordQwenCompletion exactly once
\* after a successful question tool execution when the plugin is enabled, Qwen
\* OAuth is configured and the session model is qwen-code/*, and not at all
\* when the plugin is disabled or the output of the tool indicates failure.
C29_HookRecordsCompletion ==
    [][\A tool \in Tools, status \in Statuses :
            ToolExecuteAfter(tool, status) => begun' = begun + CompletionsOwed(tool, status)
      ]_vars

\* aggregateUsage has come back with the report /tokens_between asked for the
\* days startYmd to endYmd
ReportedBetween(startYmd, endYmd) ==
    /\ iter.op = "aggregate"
    /\ iter.pc = "idle"
    /\ iter.sessionID = <<>>
    /\ iter.sinceMs = <<startOfLocalDayMs(startYmd)>>
    /\ iter.untilMs = <<startOfNextLocalDayMs(endYmd)>>
    /\ outcome # <<>>
    /\ outcome[1].usage # <<>>

\* The rows of assistant messages created on the local days startYmd to endYmd
RowsOfDays(startYmd, endYmd) ==
    {r \in store.rows :
        /\ r.data.json = "object"
        /\ r.data.role \in {<<"assistant">>, <<"Assistant">>}
        /\ startOfLocalDayMs(startYmd) <= r.time_created
        /\ r.time_created < startOfNextLocalDayMs(endYmd)}

\* C30: the report of /tokens_between START END covers exactly the assistant
\* messages created from local midnight of START up to, and not at, the local
\* midnight that follows END: it counts as many messages as there are such rows.
C30_UpperBoundExclusive ==
    \A startYmd, endYmd \in Days :
        ReportedBetween(startYmd, endYmd)
            => outcome[1].usage[1].totals.messageCount
                    = Cardinality(RowsOfDays(startYmd, endYmd))

\* The timestamps of the stored state that are inside the rolling window at
\* nowMs, in their order
StoredInWindow(nowMs) ==
    LET stored == readStateFromDisk(file, nowMs)
        Inside(ts) == nowMs - RPM_WINDOW_MS <= ts /\ ts <= nowMs
    IN  SelectSeq(stored.recent, Inside)

\* The last n elements of seq
LastOf(seq, n) == [i \in 1..(IF Len(seq) < n THEN Len(seq) ELSE n) |->
                        seq[i + (IF Len(seq) < n THEN 0 ELSE Len(seq) - n)]]

\* C31: recordCompletion at atMs leaves as recent the stored timestamps of the
\* rolling window followed by atMs, once (the oldest dropped beyond the cap);
\* when the stored UTC day is not that of atMs, dayCount is 1 and the
\* timestamps of the day before that are still inside the window are kept.
C31_RolloverKeepsRecent ==
    [][recordQwenCompletion =>
        LET stored == readStateFromDisk(file, now)
            kept == StoredInWindow(now)
            after == file'[1]
        IN  /\ after.recent = LastOf(kept \o <<now>>, MAX_RECENT_TIMESTAMPS)
            /\ after.recent[Len(after.recent)] = now
            /\ stored.utcDay # utcDayKey(now)
                => /\ after.dayCount = 1
                   /\ after.utcDay = utcDayKey(now)
                   /\ \A i \in 1..(Len(after.recent) - 1) :
                        utcDayKey(after.recent[i]) # utcDayKey(now)
                            => \E j \in DOMAIN stored.recent : stored.recent[j] = after.recent[i]
      ]_vars

\* C31 witness: directly after a rollover the state on the state path has
\* dayCount 1 and two timestamps, one of them of the day before
C31_Witness ==
    /\ result # <<>>
    /\ result[1].op = "record"
    /\ result[1].at = now
    /\ file = <<result[1].state>>
    /\ file0 # <<>>
    /\ file0[1].kind = "state"
    /\ file0[1].utcDay = utcDayKey(QuotaStartTime)
    /\ file[1].utcDay = utcDayKey(QuotaStartTime) + 1
    /\ file[1].dayCount = 1
    /\ Len(file[1].recent) = 2
    /\ utcDayKey(file[1].recent[1]) = utcDayKey(QuotaStartTime)
    /\ Len(file[1].recent) > file[1].dayCount

\* The state path held, when the run started, nothing, something unreadable
\* or a state that names its UTC day
StartNamesItsDay ==
    file0 = <<>> \/ file0[1].kind # "state" \/ file0[1].utcDay >= 0

\* The count the state path held for UTC day d when the run started, a count
\* that is no count being none
CountStoredFor(d) ==
    IF StoredAtStart(d) >= 0 THEN StoredAtStart(d) ELSE 0

\* C32: with one writer whose calls of recordCompletion come one after the
\* other and every write succeeding, the dayCount on the state path after a
\* call is the count stored for the UTC day of that call when the run started
\* plus the number of calls made on that day, across day rollovers.
C32_SequentialCountsEveryCall ==
    (begun > 0 /\ StartNamesItsDay)
        => /\ file # <<>>
           /\ file[1].kind = "state"
           /\ file[1].utcDay = utcDayKey(result[1].at) \/ result[1].op # "record"
           /\ file[1].dayCount = CountStoredFor(file[1].utcDay) + StartedOn(file[1].utcDay)

\* C32 witness: a call on the day of the stored state and, after the
\* rollover, a call on the next day, which has just returned: the state path
\* holds the count of the second day, 1
C32_Witness ==
    /\ begun = 2
    /\ begunToday = 1
    /\ result # <<>>
    /\ result[1].op = "record"
    /\ file0 # <<>>
    /\ file0[1].kind = "state"
    /\ file0[1].utcDay = utcDayKey(QuotaStartTime)
    /\ file0[1].dayCount = 2
    /\ file[1].utcDay = utcDayKey(QuotaStartTime) + 1
    /\ file[1].dayCount = 1

\* The execution of fetchFn started last has thrown
LastFetchThrew == fetches # <<>> /\ fetches[Len(fetches)].status = "rejected"

\* C33: when fetchFn throws, the throttle clock and the cache entry stay as
\* they are; a call made less than minIntervalMs after the start of the failed
\* execution starts no execution of fetchFn and returns the message of the
\* cache entry, or null without one.
C33_ThrowKeepsThrottle ==
    [][/\ \A p \in DOMAIN fetches :
            (SettlesNow(p) /\ fetches'[p].out.kind = "throw")
                => /\ lastFetchTime' = lastFetchTime
                   /\ cachedToast' = cachedToast
       /\ \A m \in Intervals, w \in BOOLEAN :
            (/\ LastFetchThrew
             /\ now - lastStart[1].at < m
             /\ GetOrFetchCall(m, w))
                => /\ Len(fetches') = Len(fetches)
                   /\ inFlightPromise' = 0
                   /\ lastCall'[1].branch \in {"cached", "throttled"}
                   /\ lastCall'[1].value = BestKnown
      ]_vars

\* C33 witness: the second execution threw, and a call made in the tick of
\* its start has been turned away with the message the first one stored
C33_Witness ==
    /\ Len(fetches) = 2
    /\ LastFetchThrew
    /\ lastStart[1].at = now
    /\ lastFetchTime = now
    /\ lastCall # <<>>
    /\ lastCall[1].branch = "throttled"
    /\ cachedToast # <<>>
    /\ lastCall[1].value = cachedToast[1].message
    /\ cachedToast[1].message = FetchMessage(1)

\* Promise p settles in this step with a null message or with cache == false
SettlesUncached(p) ==
    /\ SettlesNow(p)
    /\ fetches'[p].out.kind = "ok"
    /\ fetches'[p].out.message = Null \/ ~fetches'[p].out.cache

\* C34: from the step that starts an execution of fetchFn to the step in which
\* it resolves with message == null or with cache == false, that step
\* included, the cache entry {message, timestamp} stays what it was: an older
\* entry is neither cleared nor renewed.
C34_UncachedLeavesEntry ==
    [][/\ Len(fetches') > Len(fetches) => cachedToast' = cachedToast
       /\ \A p \in DOMAIN fetches :
            (/\ fetches[p].status = "running"
             /\ fetches'[p].status = "running" \/ SettlesUncached(p))
                => cachedToast' = cachedToast
      ]_vars

\* C34 witness: the second execution has resolved without a result to store,
\* a tick after the first one stored its message, and the entry of the first
\* is still there with its timestamp
C34_Witness ==
    /\ Len(fetches) = 2
    /\ fetches[2].status = "resolved"
    /\ fetches[2].out.message = Null \/ ~fetches[2].out.cache
    /\ inFlightPromise = 0
    /\ cachedToast # <<>>
    /\ cachedToast[1].message = FetchMessage(1)
    /\ cachedToast[1].timestamp < now
    /\ cachedToast = lastStored

\* The executions of fetchFn in progress
Running == {p \in DOMAIN fetches : fetches[p].status = "running"}

\* C35: in every interleaving of getOrFetchWithCacheControl, updateCache and
\* clearCache calls, at most one execution of fetchFn is in progress at any
\* moment, and the in-flight marker is set exactly while one is, to its promise.
C35_OneExecutionMarked ==
    /\ Cardinality(Running) <= 1
    /\ inFlightPromise # 0 <=> Running # {}
    /\ inFlightPromise # 0 => inFlightPromise \in Running

\* C36: clearCache leaves no cache entry, so that getCachedToast answers null,
\* and the entry stays away until updateCache or a fetch started after the
\* clear stores one: an execution of fetchFn that was in progress when
\* clearCache ran stores nothing when it settles.
C36_ClearLasts ==
    [][/\ clearCache => \A m \in Intervals : getCachedToast(m)' = Null
       /\ \A p \in DOMAIN fetches :
            (SettlesNow(p) /\ fetches[p].cleared) => cachedToast' = cachedToast
      ]_vars

\* A call with interval m finds no fresh entry, no fetch in flight and the
\* throttle window elapsed
StaleAndDue(m) ==
    /\ getCachedToast(m) = Null
    /\ inFlightPromise = 0
    /\ now - lastFetchTime >= m

\* C37: every started fetchFn settling in the end, the in-flight marker is
\* set only for a time, every call waiting for a promise sees it settle, and a
\* call that finds the cache stale, nothing in flight and the throttle window
\* elapsed starts fetchFn anew.
C37_NeverStuck ==
    /\ (inFlightPromise # 0) ~> (inFlightPromise = 0)
    /\ \A p \in 1..MaxFetches :
            (p \in DOMAIN fetches /\ fetches[p].status = "running")
                ~> (p \in DOMAIN fetches /\ fetches[p].status # "running")
    /\ [][\A m \in Intervals, w \in BOOLEAN :
            (StaleAndDue(m) /\ GetOrFetchCall(m, w))
                => /\ Len(fetches') = Len(fetches) + 1
                   /\ inFlightPromise' = Len(fetches')
                   /\ fetches'[inFlightPromise'].status = "running"
         ]_vars

\* C37 witness: the first execution has settled for its two callers and
\* stored its message; with that entry stale and the window elapsed, a call
\* has started the second execution
C37_Witness ==
    /\ Len(fetches) = 2
    /\ fetches[1].status = "resolved"
    /\ fetches[2].status = "running"
    /\ inFlightPromise = 2
    /\ cachedToast # <<>>
    /\ cachedToast[1].message = FetchMessage(1)
    /\ lastStart[1].min > 0
    /\ lastStart[1].at - cachedToast[1].timestamp >= lastStart[1].min
    /\ lastCall[1].branch = "start"

\* C38: a call of readQwenLocalQuotaState, of computeQwenQuota or of the fetch
\* of the qwen-code provider leaves the state path and the temporary files as
\* they are; the state path changes in a call of recordQwenCompletion only.
C38_ReadsDoNotWrite ==
    [][/\ (\/ readQwenLocalQuotaState
            \/ ComputeQuota
            \/ QwenCodeFetch)
                => file' = file /\ tmp' = tmp
       /\ file' # file => recordQwenCompletion
      ]_vars

\* C38 witness: after a call of recordQwenCompletion and a rollover the
\* provider has reported the quota of the new day, none used, and the state
\* path still holds the state of the day before with its count
C38_Witness ==
    /\ result # <<>>
    /\ result[1].op = "fetch"
    /\ result[1].quota # <<>>
    /\ result[1].quota[1].day.used = 0
    /\ begun = 1
    /\ file # <<>>
    /\ file[1].kind = "state"
    /\ file[1].utcDay = utcDayKey(QuotaStartTime)
    /\ file[1].dayCount >= 1
    /\ utcDayKey(now) = utcDayKey(QuotaStartTime) + 1

------------------------------------------------------------------------------
(* Properties of the /quota command *)

\* C39: a message the /quota command serves from its cache was fetched less
\* than config.minIntervalMs before the command ran.
C39_HitIsRecent ==
    (quotaCache.served # <<>> /\ quotaCache.served[1].hit)
        => quotaCache.served[1].at - quotaCache.served[1].fetchedAt
               < quotaCache.served[1].min

------------------------------------------------------------------------------
(* Properties of showQuotaToast *)

\* C40: a message that showQuotaToast shows for session S was computed by
\* fetchQuotaMessage for session S.
C40_ToastOfOwnSession == \A d \in shown.last : d.to = d.of

====
